---- MODULE Spec2Model ----
(***************************************************************************)
(* Model of the analysis pipeline of app/bias_model.py and app/cache.py:   *)
(* score normalisation, coercion and calibration, JSON parsing with the    *)
(* brace-slicing fallback, the retrying model call and the result cache.   *)
(*                                                                         *)
(* Numbers: every score is a Python float.  A finite float is modelled as  *)
(* an integer number of thousandths (0.333 is 333); the two non-finite     *)
(* floats the code can meet (inf, nan) are modelled as such.               *)
(***************************************************************************)
EXTENDS Integers, Sequences, FiniteSets, TLC

(***************************************************************************)
(* Python floats                                                           *)
(***************************************************************************)
Fin(n) == [kind |-> "fin", val |-> n]
NaN == [kind |-> "nan", val |-> 0]
Inf == [kind |-> "inf", val |-> 0]

IsFin(x) == x.kind = "fin"

\* max(x, 0.0): Python's max keeps its first argument unless the second is
\* greater, so nan and inf pass through.
FMax0(x) == IF IsFin(x) THEN Fin(IF x.val > 0 THEN x.val ELSE 0) ELSE x

\* a + b on floats.
FAdd(a, b) ==
    IF a.kind = "nan" \/ b.kind = "nan" THEN NaN
    ELSE IF a.kind = "inf" \/ b.kind = "inf" THEN Inf
    ELSE Fin(a.val + b.val)

\* x + d for a finite constant d (d may be negative).
FShift(x, d) == IF IsFin(x) THEN Fin(x.val + d) ELSE x

\* total <= 0 (false for nan and inf).
FLeqZero(t) == IsFin(t) /\ t.val <= 0

\* round(n / d, 3) in thousandths for integers n >= 0, d > 0.  A quotient that
\* lies exactly half way between two thousandths is rounded according to the
\* binary float it was stored as, which the model does not carry: tieUp says
\* which way that case goes.
RoundDiv(n, d, tieUp) ==
    LET q == (1000 * n) \div d
        r == (1000 * n) % d
    IN  IF 2 * r < d THEN q
        ELSE IF 2 * r > d THEN q + 1
        ELSE IF tieUp THEN q + 1 ELSE q

\* round(v / total, 3) for a clamped v and a total that is not <= 0.
FDivRound(v, total, tieUp) ==
    IF v.kind = "nan" \/ total.kind = "nan" THEN NaN
    ELSE IF total.kind = "inf" THEN (IF v.kind = "inf" THEN NaN ELSE Fin(0))
    ELSE IF v.kind = "inf" THEN Inf
    ELSE Fin(RoundDiv(v.val, total.val, tieUp))

(***************************************************************************)
(* Score normaliser and source calibrator                                  *)
(***************************************************************************)
Keys == {"Left", "Center", "Right"}
Sources == {"right", "left", "center", "unknown"}
Ties == [Keys -> BOOLEAN]

DEFAULT_SCORES == [Left |-> Fin(333), Center |-> Fin(334), Right |-> Fin(333)]

\* Mutant: abs() in place of the clamp.
ClampAbs(scores) ==
    [k \in Keys |-> IF IsFin(scores[k]) /\ scores[k].val < 0
                    THEN Fin(0 - scores[k].val) ELSE scores[k]]

\* Mutant: no clamp at all.
ClampNone(scores) == scores

Clamp(scores) == [k \in Keys |-> FMax0(scores[k])]

Total(clamped) == FAdd(FAdd(FAdd(Fin(0), clamped.Left), clamped.Center), clamped.Right)

\* Mutant: the total is summed over the unclamped values.
NormalizeRawTotal(scores, ties) ==
    LET clamped == Clamp(scores)
        total == Total(scores)
    IN  IF FLeqZero(total) THEN DEFAULT_SCORES
        ELSE [k \in Keys |-> FDivRound(clamped[k], total, ties[k])]

_normalize_scores(scores, ties) ==
    LET clamped == Clamp(scores)
        total == Total(clamped)
    IN  IF FLeqZero(total) THEN DEFAULT_SCORES
        ELSE [k \in Keys |-> FDivRound(clamped[k], total, ties[k])]

adjustment == 150

\* Mutant: the "right" and "left" branches are swapped.
AdjustSwapped(scores, source) ==
    IF source = "left"
    THEN [scores EXCEPT !.Right = FShift(@, adjustment),
                        !.Left = FShift(@, -(adjustment \div 2))]
    ELSE IF source = "right"
    THEN [scores EXCEPT !.Left = FShift(@, adjustment),
                        !.Right = FShift(@, -(adjustment \div 2))]
    ELSE IF source = "center"
    THEN [scores EXCEPT !.Center = FShift(@, adjustment)]
    ELSE scores

\* The adjusted mapping of calibrate_with_source before it is renormalised.
Adjust(scores, source) ==
    IF source = "right"
    THEN [scores EXCEPT !.Right = FShift(@, adjustment),
                        !.Left = FShift(@, -(adjustment \div 2))]
    ELSE IF source = "left"
    THEN [scores EXCEPT !.Left = FShift(@, adjustment),
                        !.Right = FShift(@, -(adjustment \div 2))]
    ELSE IF source = "center"
    THEN [scores EXCEPT !.Center = FShift(@, adjustment)]
    ELSE scores

calibrate_with_source(scores, source, ties) ==
    _normalize_scores(Adjust(scores, source), ties)

(***************************************************************************)
(* JSON texts and safe_json_parse                                          *)
(*                                                                         *)
(* A text is a sequence of tokens: the two braces, "k" (a quoted key with  *)
(* its colon), "v" (a JSON value without braces: a number, a string, a     *)
(* list) and "p" (a word of prose).  The JSON texts are                    *)
(*     value  ::= "v" | object                                             *)
(*     object ::= "{" "}"  |  "{" "k" value "}"                            *)
(***************************************************************************)
Tokens == {"{", "}", "k", "v", "p"}

RECURSIVE JsonValueEnd(_, _)
\* The index just after the JSON value that starts at text[i]; 0 if none does.
JsonValueEnd(text, i) ==
    IF i > Len(text) THEN 0
    ELSE IF text[i] = "v" THEN i + 1
    ELSE IF text[i] # "{" \/ i + 1 > Len(text) THEN 0
    ELSE IF text[i + 1] = "}" THEN i + 2
    ELSE IF text[i + 1] # "k" THEN 0
    ELSE LET e == JsonValueEnd(text, i + 2)
         IN  IF e # 0 /\ e <= Len(text) /\ text[e] = "}" THEN e + 1 ELSE 0

\* json.loads accepts the text: it is one JSON value and nothing else.
IsJson(text) == JsonValueEnd(text, 1) = Len(text) + 1

RECURSIVE JsonDecode(_)
\* The value json.loads returns for a JSON text.
JsonDecode(text) ==
    IF text[1] = "v" THEN [type |-> "scalar", members |-> <<>>]
    ELSE IF text[2] = "}" THEN [type |-> "object", members |-> <<>>]
    ELSE [type |-> "object",
          members |-> <<JsonDecode(SubSeq(text, 3, Len(text) - 1))>>]

\* json.loads(text): the value, or JSONDecodeError.
json_loads(text) ==
    IF IsJson(text) THEN [ok |-> TRUE, value |-> JsonDecode(text), error |-> ""]
    ELSE [ok |-> FALSE, value |-> [type |-> "none", members |-> <<>>],
          error |-> "JSONDecodeError"]

\* text.find(c) and text.rfind(c), 0-based, -1 when c does not occur.
Find(text, c) ==
    IF \E i \in 1..Len(text) : text[i] = c
    THEN (CHOOSE i \in 1..Len(text) :
              text[i] = c /\ \A j \in 1..(i - 1) : text[j] # c) - 1
    ELSE -1

RFind(text, c) ==
    IF \E i \in 1..Len(text) : text[i] = c
    THEN (CHOOSE i \in 1..Len(text) :
              text[i] = c /\ \A j \in (i + 1)..Len(text) : text[j] # c) - 1
    ELSE -1

\* text[start:end] for 0 <= start and 0 <= end (empty when end <= start).
Slice(text, start, end) == SubSeq(text, start + 1, end)

\* Mutant: the slice ends at the first closing brace.
SafeJsonParseFirstClose(text) ==
    IF IsJson(text) THEN json_loads(text)
    ELSE LET start == Find(text, "{")
             end == Find(text, "}") + 1
         IN  IF start # -1 /\ end # -1
             THEN json_loads(Slice(text, start, end))
             ELSE [ok |-> FALSE, value |-> [type |-> "none", members |-> <<>>],
                   error |-> "ValueError"]

safe_json_parse(text) ==
    IF IsJson(text) THEN json_loads(text)
    ELSE LET start == Find(text, "{")
             end == RFind(text, "}") + 1
         IN  IF start # -1 /\ end # -1
             THEN json_loads(Slice(text, start, end))
             ELSE [ok |-> FALSE, value |-> [type |-> "none", members |-> <<>>],
                   error |-> "ValueError"]

(***************************************************************************)
(* Decoded JSON values of a model reply, and score coercion                *)
(***************************************************************************)
JNum(x) == [t |-> "num", n |-> x, s |-> <<>>, members |-> <<>>]
JInf == [t |-> "inf", n |-> 0, s |-> <<>>, members |-> <<>>]       \* 1e999, Infinity
JNaN == [t |-> "nan", n |-> 0, s |-> <<>>, members |-> <<>>]       \* NaN
JBigInt == [t |-> "bigint", n |-> 0, s |-> <<>>, members |-> <<>>] \* an integer above the float range
JStr(str) == [t |-> "str", n |-> 0, s |-> str, members |-> <<>>]
JNull == [t |-> "null", n |-> 0, s |-> <<>>, members |-> <<>>]
JList == [t |-> "list", n |-> 0, s |-> <<>>, members |-> <<>>]
JObj(ms) == [t |-> "obj", n |-> 0, s |-> <<>>, members |-> ms]

\* A string is a sequence of characters; " " is whitespace.
RECURSIVE Strip(_)
Strip(str) ==
    IF str = <<>> THEN str
    ELSE IF Head(str) = " " THEN Strip(Tail(str))
    ELSE IF str[Len(str)] = " " THEN Strip(SubSeq(str, 1, Len(str) - 1))
    ELSE str

\* str(v) for a decoded JSON value.
PyStr(v) ==
    IF v.t = "str" THEN v.s
    ELSE IF v.t = "null" THEN <<"None">>
    ELSE <<v.t>>

\* The index of the last member of an object with this key; 0 if there is none.
MemberIndex(ms, key) ==
    IF \E i \in 1..Len(ms) : ms[i][1] = key
    THEN CHOOSE i \in 1..Len(ms) :
            ms[i][1] = key /\ \A j \in (i + 1)..Len(ms) : ms[j][1] # key
    ELSE 0

\* dict.get(key, default)
DictGet(ms, key, default) ==
    IF MemberIndex(ms, key) = 0 THEN default ELSE ms[MemberIndex(ms, key)][2]

\* str(k).strip().lower() on the key spellings of the model's inputs.
StripLower(k) ==
    CASE k \in {"Left", " LEFT ", "left"} -> "left"
      [] k \in {"Liberal", "liberal"} -> "liberal"
      [] k \in {"Progressive"} -> "progressive"
      [] k \in {"Center", "center"} -> "center"
      [] k \in {"Centrist"} -> "centrist"
      [] k \in {"Neutral", "neutral "} -> "neutral"
      [] k \in {"Right", "RIGHT", "right"} -> "right"
      [] k \in {"Conservative"} -> "conservative"
      [] OTHER -> k

\* lookup = {str(k).strip().lower(): v for k, v in raw_scores.items()}
Lookup(ms) ==
    [nk \in {StripLower(ms[i][1]) : i \in 1..Len(ms)} |->
        LET i == CHOOSE i \in 1..Len(ms) :
                    /\ StripLower(ms[i][1]) = nk
                    /\ \A j \in (i + 1)..Len(ms) : StripLower(ms[j][1]) # nk
        IN  ms[i][2]]

\* float(v): the float, or the exception raised.
PyFloat(v) ==
    CASE v.t = "num" -> [raised |-> "", val |-> Fin(v.n)]
      [] v.t = "inf" -> [raised |-> "", val |-> Inf]
      [] v.t = "nan" -> [raised |-> "", val |-> NaN]
      [] v.t = "bigint" -> [raised |-> "OverflowError", val |-> Fin(0)]
      [] v.t = "str" -> IF Strip(v.s) = <<"0.4">> THEN [raised |-> "", val |-> Fin(400)]
                        ELSE IF Strip(v.s) = <<"nan">> THEN [raised |-> "", val |-> NaN]
                        ELSE IF Strip(v.s) = <<"inf">> THEN [raised |-> "", val |-> Inf]
                        ELSE [raised |-> "ValueError", val |-> Fin(0)]
      [] OTHER -> [raised |-> "TypeError", val |-> Fin(0)]

RECURSIVE pick(_, _)
\* pick(*keys, default=0.0) of _coerce_bias_scores.
pick(lookup, keys) ==
    IF keys = <<>> THEN [raised |-> "", val |-> Fin(0)]
    ELSE IF Head(keys) \in DOMAIN lookup
    THEN LET f == PyFloat(lookup[Head(keys)])
         IN  IF f.raised \in {"TypeError", "ValueError"}
             THEN [raised |-> "", val |-> Fin(0)]
             ELSE f
    ELSE pick(lookup, Tail(keys))

_coerce_bias_scores(raw_scores, ties) ==
    IF raw_scores.t # "obj" THEN [raised |-> "", scores |-> DEFAULT_SCORES]
    ELSE LET lookup == Lookup(raw_scores.members)
             left == pick(lookup, <<"left", "liberal", "progressive">>)
             center == pick(lookup, <<"center", "centrist", "neutral">>)
             right == pick(lookup, <<"right", "conservative">>)
         IN  IF left.raised # ""
             THEN [raised |-> left.raised, scores |-> DEFAULT_SCORES]
             ELSE IF center.raised # ""
             THEN [raised |-> center.raised, scores |-> DEFAULT_SCORES]
             ELSE IF right.raised # ""
             THEN [raised |-> right.raised, scores |-> DEFAULT_SCORES]
             ELSE [raised |-> "",
                   scores |-> _normalize_scores(
                       [Left |-> left.val, Center |-> center.val, Right |-> right.val],
                       ties)]

(***************************************************************************)
(* Result cache (app/cache.py)                                             *)
(***************************************************************************)
MAX_CHARS == 6500

\* An article text: its length, the content of its first MAX_CHARS characters
\* and the content of the characters after them.
ArticleTexts ==
    {[len |-> 120, head |-> "a", tail |-> ""],
     [len |-> MAX_CHARS + 1, head |-> "b", tail |-> "x"],
     [len |-> MAX_CHARS + 2, head |-> "b", tail |-> "yy"]}

\* article_text[:6500]
Truncate(article) ==
    IF article.len > MAX_CHARS
    THEN [len |-> MAX_CHARS, head |-> article.head, tail |-> ""]
    ELSE article

\* f"{source}|{article_text}"; no source label contains "|".
CacheKeyOf(source, article) == <<source, article>>

\* The file name of a key: its SHA-256 digest, taken to be collision free.
_hash(key) == key

CacheKeys == {CacheKeyOf(src, Truncate(a)) : src \in Sources, a \in ArticleTexts}

NarrativeFields == <<"summary", "essay", "top_signal", "global_perspective">>

FloatToJson(x) ==
    IF x.kind = "fin" THEN JNum(x.val) ELSE IF x.kind = "inf" THEN JInf ELSE JNaN

JsonToFloat(v) ==
    IF v.t = "num" THEN Fin(v.n) ELSE IF v.t = "inf" THEN Inf ELSE NaN

\* json.dump(result): the members of the written object, in insertion order.
JsonDump(result) ==
    [i \in 1..5 |->
        IF i <= 4
        THEN <<NarrativeFields[i], JStr(result[NarrativeFields[i]])>>
        ELSE <<"bias_scores",
               JObj(<< <<"Left", FloatToJson(result.bias_scores.Left)>>,
                       <<"Center", FloatToJson(result.bias_scores.Center)>>,
                       <<"Right", FloatToJson(result.bias_scores.Right)>> >>)>>]

\* json.load(f): the dict of a cache file.
JsonLoad(file) ==
    [f \in {file[i][1] : i \in 1..Len(file)} |->
        LET v == DictGet(file, f, JNull)
        IN  IF v.t = "obj"
            THEN [k \in {v.members[i][1] : i \in 1..Len(v.members)} |->
                     JsonToFloat(DictGet(v.members, k, JNull))]
            ELSE v.s]

\* get_cached_result: <<>> for None, else <<the dict read>>.
get_cached_result(files, key) ==
    IF files[_hash(key)] # <<>> THEN <<JsonLoad(files[_hash(key)][1])>> ELSE <<>>

\* Mutant: the result is not written.
SaveNothing(files, key, result) == files

save_cached_result(files, key, result) ==
    [files EXCEPT ![_hash(key)] = <<JsonDump(result)>>]

(***************************************************************************)
(* full_bias_analysis and groq_call                                        *)
(***************************************************************************)
MAX_ATTEMPTS == 3
BACKOFF == 7            \* 0.7 s, in tenths of a second

\* The result dict of one parsed reply: <<>> with the exception raised, or
\* <<normalized_result>>.
Assemble(value, body, source, ties1, ties2) ==
    IF value.type # "object"
    THEN [raised |-> "AttributeError", stage |-> "fields", result |-> <<>>]
    ELSE LET ms == IF value.members = <<>> THEN <<>> ELSE body
             c == _coerce_bias_scores(DictGet(ms, "bias_scores", JObj(<<>>)), ties1)
         IN  IF c.raised # ""
             THEN [raised |-> c.raised, stage |-> "coerce", result |-> <<>>]
             ELSE [raised |-> "", stage |-> "",
                   result |-> <<[
                       summary |-> Strip(PyStr(DictGet(ms, "summary",
                                        JStr(<<"No summary available.">>)))),
                       essay |-> Strip(PyStr(DictGet(ms, "essay",
                                        JStr(<<"No detailed reasoning available.">>)))),
                       top_signal |-> Strip(PyStr(DictGet(ms, "top_signal",
                                        JStr(<<"No dominant signal detected.">>)))),
                       global_perspective |-> Strip(PyStr(DictGet(ms, "global_perspective",
                                        JStr(<<"Global perspective was not generated for this article.">>)))),
                       bias_scores |-> calibrate_with_source(c.scores, source, ties2)]>>]

\* The cached dict as returned on a hit, with the missing field backfilled.
BackFill(cached) ==
    IF "global_perspective" \in DOMAIN cached THEN cached
    ELSE [f \in DOMAIN cached \cup {"global_perspective"} |->
             IF f = "global_perspective"
             THEN <<"Global perspective unavailable for this cached result.">>
             ELSE cached[f]]

\* Mutant: a reply that cannot be parsed is always sent to repair.
AfterParseAlwaysRepair(purpose, ok) ==
    IF ok THEN "finish" ELSE "repair"

\* What full_bias_analysis does after safe_json_parse of the reply of the
\* first call (purpose "raw") or of the corrective call (purpose "repair").
AfterParse(purpose, ok) ==
    IF ok THEN "finish"
    ELSE IF purpose = "raw" THEN "repair"
    ELSE "raise"

\* Mutant: the loop makes one attempt more.
RetryAllowedOneMore(attempt) == attempt < MAX_ATTEMPTS

\* "if attempt < 2": another attempt follows the failed one.
RetryAllowed(attempt) == attempt < MAX_ATTEMPTS - 1

\* Replies of the model: the text as tokens, and what its object decodes to.
BodyFull ==
    << <<"summary", JStr(<<" ", "S", " ">>)>>,
       <<"essay", JStr(<<"E">>)>>,
       <<"top_signal", JStr(<<"T">>)>>,
       <<"global_perspective", JStr(<<"G">>)>>,
       <<"bias_scores", JObj(<< <<"Left", JNum(200)>>, <<"Center", JNum(500)>>,
                                <<"Right", JNum(300)>> >>)>> >>

BodySynonyms ==
    << <<"summary", JStr(<<"S">>)>>,
       <<"essay", JNull>>,
       <<"bias_scores", JObj(<< <<" LEFT ", JStr(<<"high">>)>>, <<"Liberal", JNum(700)>>,
                                <<"neutral ", JStr(<<" ", "0.4">>)>>,
                                <<"Conservative", JNull>> >>)>> >>

BodyNonMapping ==
    << <<"summary", JStr(<<"S">>)>>, <<"bias_scores", JList>> >>

BodyInf ==
    << <<"summary", JStr(<<"S">>)>>,
       <<"bias_scores", JObj(<< <<"Left", JInf>>, <<"Center", JNum(300)>>,
                                <<"Right", JNum(200)>> >>)>> >>

BodyBigInt ==
    << <<"summary", JStr(<<"S">>)>>,
       <<"bias_scores", JObj(<< <<"Left", JNum(300)>>, <<"Center", JBigInt>>,
                                <<"Right", JNum(200)>> >>)>> >>

Bodies == {BodyFull, BodySynonyms, BodyNonMapping, BodyInf, BodyBigInt}

Replies ==
    {[shape |-> <<"{", "k", "v", "}">>, body |-> b] : b \in Bodies}
    \cup {[shape |-> <<"p", "{", "k", "v", "}", "p">>, body |-> BodyFull]}
    \cup {[shape |-> sh, body |-> <<>>] :
            sh \in {<<"{", "}">>, <<"v">>, <<"p">>, <<"{", "k", "v">>}}

\* Ways one completion attempt fails: the client or the model lookup raises,
\* or the reply is empty.
AttemptErrors == {"APIError", "Empty model response"}

NoFrame ==
    [purpose |-> "", attempt |-> 0, made |-> 0, last_error |-> "",
     errors |-> <<>>, slept |-> <<>>, status |-> "none"]

NewFrame(purpose) ==
    [purpose |-> purpose, attempt |-> 0, made |-> 0, last_error |-> "",
     errors |-> <<>>, slept |-> <<>>, status |-> "running"]

NoRet == [kind |-> "none", error |-> "", cause |-> "", stage |-> "", value |-> <<>>,
          second |-> FALSE]

(***************************************************************************)
(* URL texts (app/scraper.py)                                              *)
(*                                                                         *)
(* A URL text is a sequence of tokens: a blank " ", the delimiters ":",    *)
(* "/" and "?", and words (runs of characters holding no blank and no      *)
(* delimiter).  "https://slate.com/y" is <<"https", ":", "/", "/",         *)
(* "slate.com", "/", "y">>.  What the code asks of a word (its lower-case  *)
(* form, the substrings it holds, the patterns it matches) is tabulated.   *)
(***************************************************************************)
\* str.lower() of a word.
Lower(w) ==
    CASE w = "HTTP" -> "http"
      [] w = "HTTPS" -> "https"
      [] w = "WWW.FoxNews.COM" -> "www.foxnews.com"
      [] w = "YouTube.com" -> "youtube.com"
      [] w = "ar-AA1b2c3" -> "ar-aa1b2c3"
      [] w = "abc123XYZ" -> "abc123xyz"
      [] w = "v=abc123XYZ" -> "v=abc123xyz"
      [] OTHER -> w

\* A token that is no blank and no delimiter.
IsWord(tok) == tok \notin {" ", ":", "/", "?"}

\* str.strip()
RECURSIVE StripUrl(_)
StripUrl(u) ==
    IF u = <<>> THEN u
    ELSE IF Head(u) = " " THEN StripUrl(Tail(u))
    ELSE IF u[Len(u)] = " " THEN StripUrl(SubSeq(u, 1, Len(u) - 1))
    ELSE u

\* re.match(r"^https?://", u, flags=re.IGNORECASE)
HasHttpPrefix(u) ==
    /\ Len(u) >= 4
    /\ Lower(u[1]) \in {"http", "https"}
    /\ u[2] = ":" /\ u[3] = "/" /\ u[4] = "/"

\* urllib.parse.urlparse: scheme, netloc, path and query of a text, or the
\* ValueError of a netloc with an unbalanced bracket ("[::1", an unfinished
\* IPv6 host).
urlparse(u) ==
    LET \* The least index >= from of a token of stops in t, or Len(t) + 1.
        FirstOf(t, from, stops) ==
            IF \E i \in from..Len(t) : t[i] \in stops
            THEN CHOOSE i \in from..Len(t) :
                    /\ t[i] \in stops
                    /\ \A j \in from..(i - 1) : t[j] \notin stops
            ELSE Len(t) + 1
        hasScheme == Len(u) >= 2 /\ IsWord(u[1]) /\ u[2] = ":"
        scheme == IF hasScheme THEN Lower(u[1]) ELSE ""
        rest == IF hasScheme THEN SubSeq(u, 3, Len(u)) ELSE u
        hasNetloc == Len(rest) >= 2 /\ rest[1] = "/" /\ rest[2] = "/"
        netEnd == IF hasNetloc THEN FirstOf(rest, 3, {"/", "?"}) ELSE 1
        netloc == IF hasNetloc THEN SubSeq(rest, 3, netEnd - 1) ELSE <<>>
        after == SubSeq(rest, netEnd, Len(rest))
        q == FirstOf(after, 1, {"?"})
    IN  [raised |-> IF \E i \in 1..Len(netloc) : netloc[i] = "[::1"
                    THEN "ValueError" ELSE "",
         scheme |-> scheme,
         netloc |-> netloc,
         path |-> SubSeq(after, 1, q - 1),
         query |-> SubSeq(after, q + 1, Len(after))]

\* netloc.lower()
LowerAll(s) == [i \in 1..Len(s) |-> Lower(s[i])]

\* needle in domain: the substrings of a lower-case word that the code
\* searches for are tabulated.
Contains(domain, needle) ==
    LET Needles(w) ==
            CASE w = "www.foxnews.com" -> {"foxnews"}
              [] w = "slate.com" -> {"slate"}
              [] w = "apnews.com" -> {"apnews"}
              [] w = "www.vox.com" -> {"vox", "x.com"}
              [] w = "foxnews-vox.bbc.example" -> {"foxnews", "vox", "bbc"}
              [] w = "slate.npr.example" -> {"slate", "npr"}
              [] w = "youtube.com" -> {"youtube.com"}
              [] w = "www.youtube.com" -> {"youtube.com"}
              [] w = "youtu.be" -> {"youtu.be"}
              [] w = "twitter.com" -> {"twitter.com"}
              [] w = "x.com" -> {"x.com"}
              [] w = "www.msn.com" -> {"msn.com"}
              [] w = "youtube.com.msn.com" -> {"youtube.com", "msn.com"}
              [] OTHER -> {}
    IN  \E i \in 1..Len(domain) : needle \in Needles(domain[i])

\* _normalize_url(url): the normalised text, or what it raises.
_normalize_url(url) ==
    LET stripped == StripUrl(url)
        candidate == IF HasHttpPrefix(stripped) THEN stripped
                     ELSE <<"https", ":", "/", "/">> \o stripped
        parsed == urlparse(candidate)
    IN  IF stripped = <<>>
        THEN [raised |-> "ScrapeError", message |-> "Please paste a URL.", url |-> <<>>]
        ELSE IF parsed.raised # ""
        THEN [raised |-> parsed.raised, message |-> "", url |-> <<>>]
        ELSE IF parsed.scheme \notin {"http", "https"} \/ parsed.netloc = <<>>
        THEN [raised |-> "ScrapeError", message |-> "Please use a valid URL (http/https).",
              url |-> <<>>]
        ELSE [raised |-> "", message |-> "", url |-> candidate]

\* detect_source(url): the label, or what it raises.
detect_source(url) ==
    LET stripped == StripUrl(url)
        candidate == IF stripped # <<>> /\ ~HasHttpPrefix(stripped)
                     THEN <<"https", ":", "/", "/">> \o stripped ELSE stripped
        parsed == urlparse(candidate)
        domain == LowerAll(parsed.netloc)
        RIGHT == {"foxnews", "dailywire", "breitbart", "newsmax", "washingtontimes",
                  "theblaze"}
        LEFT == {"msnbc", "huffpost", "vox", "motherjones", "slate", "salon"}
        CENTER == {"reuters", "apnews", "bbc", "npr", "axios", "usatoday"}
    IN  IF parsed.raised # "" THEN [raised |-> parsed.raised, label |-> ""]
        ELSE IF \E s \in RIGHT : Contains(domain, s) THEN [raised |-> "", label |-> "right"]
        ELSE IF \E s \in LEFT : Contains(domain, s) THEN [raised |-> "", label |-> "left"]
        ELSE IF \E s \in CENTER : Contains(domain, s) THEN [raised |-> "", label |-> "center"]
        ELSE [raised |-> "", label |-> "unknown"]

(***************************************************************************)
(* Video ids, article paths and page texts (app/scraper.py)                *)
(***************************************************************************)
\* Acceptance thresholds of extract_content.
ARTICLE_LEN == 350
ARTICLE_WORDS == 60
ARTICLE_SENTENCES == 3
ARTICLE_UNIQUE == 40
LIGHT_LEN == 180
LIGHT_WORDS == 40
MSN_MIN_LEN == 120
YOUTUBE_MIN_LEN == 100
TWEET_MIN_LEN == 60

_is_youtube_domain(domain) == Contains(domain, "youtube.com") \/ Contains(domain, "youtu.be")

_is_twitter_domain(domain) == Contains(domain, "twitter.com") \/ Contains(domain, "x.com")

\* [p for p in path.split("/") if p]: the words of a path.
Segments(path) == SelectSeq(path, LAMBDA tok : tok # "/")

\* The values of "v" in parse_qs(query), "name=value" word by word.  Blank
\* values are dropped.
RECURSIVE QueryV(_)
QueryV(query) ==
    IF query = <<>> THEN <<>>
    ELSE (IF Head(query) = "v=abc123XYZ" THEN <<"abc123XYZ">> ELSE <<>>)
            \o QueryV(Tail(query))

\* "if not video_id" never taken.
IdNeverMissing(video_id) == FALSE

\* not video_id
IdMissing(video_id) == video_id = ""

\* Any non-empty detail text accepted.
MsnAcceptsAny(got) == got.len > 0

\* len(msn_text) >= 120
MsnAccepts(got) == got.len >= MSN_MIN_LEN

\* _extract_youtube_video_id(url): the id, "" when none is found.
_extract_youtube_video_id(url) ==
    LET parsed == urlparse(url)
        host == LowerAll(parsed.netloc)
        parts == Segments(parsed.path)
    IN  IF Contains(host, "youtu.be")
        THEN IF parts = <<>> THEN "" ELSE parts[1]
        ELSE IF Contains(host, "youtube.com")
        THEN IF QueryV(parsed.query) # <<>> THEN QueryV(parsed.query)[1]
             ELSE IF Len(parts) >= 2 /\ parts[1] \in {"shorts", "live", "embed"}
             THEN parts[2]
             ELSE ""
        ELSE ""

\* re.search(r"/ar-([A-Za-z0-9]+)", url): the article id in a URL, "" if none.
MsnArticleId(url) ==
    LET \* re.match(r"ar-([A-Za-z0-9]+)", w): the article id of an "ar-" word.
        ArId(w) == IF w = "ar-AA1b2c3" THEN "AA1b2c3" ELSE ""
    IN
    IF \E i \in 2..Len(url) : url[i - 1] = "/" /\ ArId(url[i]) # ""
    THEN ArId(url[CHOOSE i \in 2..Len(url) :
                    /\ url[i - 1] = "/" /\ ArId(url[i]) # ""
                    /\ \A j \in 2..(i - 1) : ~(url[j - 1] = "/" /\ ArId(url[j]) # "")])
    ELSE ""

\* _looks_like_article_path(path)
_looks_like_article_path(path) ==
    LET lowered == LowerAll(path)
        n == Len(lowered)
        segments == Segments(lowered)
        last == segments[Len(segments)]
        \* "ar-" is a prefix of the lower-case word.
        StartsWithAr(w) == w = "ar-aa1b2c3"
        \* The number of characters of a word of digits only (\d{4}, \d{2}), else 0.
        Digits(w) == CASE w = "2024" -> 4 [] w \in {"05", "17"} -> 2 [] OTHER -> 0
        \* re.search(r"[a-z0-9-]{20,}", w) and "-" in w
        LongSlug(w) == w = "senate-passes-budget-after-long-debate"
    IN  \/ \E i \in 2..n : lowered[i - 1] = "/" /\ StartsWithAr(lowered[i])
        \/ \E i \in 1..(n - 2) :
              /\ lowered[i] = "/" /\ lowered[i + 1] \in {"article", "story"}
              /\ lowered[i + 2] = "/"
        \/ \E i \in 1..(n - 6) :
              /\ lowered[i] = "/" /\ Digits(lowered[i + 1]) = 4
              /\ lowered[i + 2] = "/" /\ Digits(lowered[i + 3]) = 2
              /\ lowered[i + 4] = "/" /\ Digits(lowered[i + 5]) = 2
              /\ lowered[i + 6] = "/"
        \/ segments # <<>> /\ LongSlug(last)

\* _is_home_or_section_path without the rule of the short alphabetic segment.
KnownSectionOnly(path) ==
    LET segments == Segments(LowerAll(path))
    IN  \/ segments = <<>>
        \/ Len(segments) = 1 /\ segments[1] \in {"news", "world", "us", "politics",
                "business", "sport", "sports", "entertainment", "video", "live"}

\* _is_home_or_section_path with the single-segment rules dropped.
HomePathOnly(path) == Segments(LowerAll(path)) = <<>>

\* _is_home_or_section_path(path)
_is_home_or_section_path(path) ==
    LET segments == Segments(LowerAll(path))
        section_names == {"news", "world", "us", "politics", "business", "sport", "sports",
                          "entertainment", "video", "live"}
        \* re.fullmatch(r"[a-z-]{2,12}", w)
        ShortAlpha(w) == w \in {"news", "politics", "live", "shorts", "embed", "watch",
                                "article", "story", "about-us", "opinion", "http", "https",
                                "ftp"}
    IN  \/ segments = <<>>
        \/ Len(segments) = 1 /\ segments[1] \in section_names
        \/ Len(segments) = 1 /\ ShortAlpha(segments[1])

\* A page text is known by what the code measures of it: len(text), the words
\* of text.split(), the marks of [.!?] and the distinct lower-cased [A-Za-z]+ runs.
TextOf(l, w, s, u) == [len |-> l, words |-> w, sentences |-> s, unique |-> u]

\* max((c for c in candidates if c), key=len, default=""): the first of the
\* longest non-empty candidates.
Best(candidates) ==
    LET nonEmpty == SelectSeq(candidates, LAMBDA c : c.len > 0)
    IN  IF nonEmpty = <<>> THEN TextOf(0, 0, 0, 0)
        ELSE nonEmpty[CHOOSE i \in 1..Len(nonEmpty) :
                        /\ \A j \in 1..Len(nonEmpty) : nonEmpty[j].len <= nonEmpty[i].len
                        /\ \A j \in 1..(i - 1) : nonEmpty[j].len < nonEmpty[i].len]

\* likely_article of extract_content.
LikelyArticle(path, signals) ==
    _looks_like_article_path(path) \/ (signals /\ ~_is_home_or_section_path(path))

\* The acceptance policy with the light rule ahead of the full rule.
AcceptLightFirst(likely_article, best) ==
    IF likely_article /\ best.len >= LIGHT_LEN /\ best.words >= LIGHT_WORDS
    THEN [raised |-> "", kind |-> "web-article-light", text |-> <<best>>]
    ELSE IF /\ likely_article /\ best.len >= ARTICLE_LEN /\ best.words >= ARTICLE_WORDS
            /\ best.sentences >= ARTICLE_SENTENCES /\ best.unique >= ARTICLE_UNIQUE
    THEN [raised |-> "", kind |-> "web-article", text |-> <<best>>]
    ELSE IF ~likely_article
    THEN [raised |-> "This link does not look like a direct article page.",
          kind |-> "", text |-> <<>>]
    ELSE [raised |-> "Could not extract enough article text from this page.",
          kind |-> "", text |-> <<>>]

\* The acceptance policy of extract_content: what it returns or raises.
Accept(likely_article, best) ==
    IF /\ likely_article /\ best.len >= ARTICLE_LEN /\ best.words >= ARTICLE_WORDS
       /\ best.sentences >= ARTICLE_SENTENCES /\ best.unique >= ARTICLE_UNIQUE
    THEN [raised |-> "", kind |-> "web-article", text |-> <<best>>]
    ELSE IF likely_article /\ best.len >= LIGHT_LEN /\ best.words >= LIGHT_WORDS
    THEN [raised |-> "", kind |-> "web-article-light", text |-> <<best>>]
    ELSE IF ~likely_article
    THEN [raised |-> "This link does not look like a direct article page.",
          kind |-> "", text |-> <<>>]
    ELSE [raised |-> "Could not extract enough article text from this page.",
          kind |-> "", text |-> <<>>]

(***************************************************************************)
(* The URLs, pages and replies the extractor is run on                     *)
(***************************************************************************)
\* The URL texts: each body bare and behind a written scheme, with and
\* without blanks around.
UrlTexts ==
    LET Slug == "senate-passes-budget-after-long-debate"
        bodies ==
    { <<>>,
      <<"www.foxnews.com", "/", "politics", "/", Slug>>,
      <<"slate.com", "/", "abc123XYZ">>,
      <<"apnews.com">>,
      <<"example.net", "/">>,
      <<"WWW.FoxNews.COM">>,
      <<"www.vox.com", "/", "2024", "/", "05", "/", "17", "/", Slug>>,
      <<"foxnews-vox.bbc.example">>,
      <<"slate.npr.example", "/", "story", "/", "abc123XYZ">>,
      <<"youtube.com", "/">>,
      <<"YouTube.com">>,
      <<"youtube.com", "/", "watch", "?", "v=abc123XYZ">>,
      <<"youtube.com", "/", "watch", "?", "v=">>,
      <<"youtube.com", "/", "watch", "?", "t=42">>,
      <<"www.youtube.com", "/", "shorts", "/", "abc123XYZ">>,
      <<"www.youtube.com", "/", "shorts", "/">>,
      <<"youtu.be", "/", "abc123XYZ">>,
      <<"youtu.be", "/">>,
      <<"twitter.com", "/", "abc123XYZ">>,
      <<"x.com", "/", "abc123XYZ">>,
      <<"www.msn.com", "/", "news", "/", "ar-AA1b2c3">>,
      <<"www.msn.com", "/", "news">>,
      <<"www.msn.com", "/", "news", "/", Slug>>,
      <<"youtube.com.msn.com", "/", "ar-AA1b2c3">>,
      <<"example.net", "/", "news", "/">>,
      <<"example.net", "/", "about-us">>,
      <<"example.net", "/", "opinion">>,
      <<"example.net", "/", "article", "/", "abc123XYZ">>,
      <<"example.net", "/", "news", "/", "abc123XYZ">>,
      <<"example.net", "/", "ar-AA1b2c3">>,
      <<"[::1">>,
      <<":", "80">> }
        schemes == { <<>>, <<"https", ":", "/", "/">>, <<"http", ":", "/", "/">>,
                     <<"HTTP", ":", "/", "/">>, <<"ftp", ":", "/", "/">> }
    IN  {scheme \o body : scheme \in schemes, body \in bodies}
            \cup {<<" ">> \o scheme \o body \o <<" ">> :
                        scheme \in schemes, body \in bodies}

\* A fetched page: whether it has article markers, and its candidates in the
\* order the code gathers them.
Pages ==
    LET \* Page texts on both sides of every acceptance threshold.
        PageTexts ==
        { TextOf(0, 0, 0, 0),
          TextOf(2000, 300, 20, 150),   \* a full article
          TextOf(350, 60, 3, 40),       \* exactly at the four article thresholds
          TextOf(349, 60, 3, 40),       \* one character short of an article
          TextOf(400, 70, 2, 50),       \* too few sentences for an article
          TextOf(400, 70, 5, 39),       \* too few distinct words for an article
          TextOf(300, 50, 2, 35),       \* a footer: light text only
          TextOf(180, 40, 1, 30),       \* exactly at the two light thresholds
          TextOf(179, 40, 1, 30),       \* one character short of light text
          TextOf(500, 39, 5, 30) }      \* too few words for light text
    IN
    [signals : BOOLEAN,
     candidates : {<<>>} \cup {<<t>> : t \in PageTexts}
                    \cup {<<t1, t2>> : t1, t2 \in {TextOf(0, 0, 0, 0),
                                                        TextOf(2000, 300, 20, 150),
                                                        TextOf(400, 70, 2, 50),
                                                        TextOf(400, 70, 5, 39),
                                                        TextOf(179, 40, 1, 30)}}]

\* What the page request gives: a page, an HTTP error status or a transport error.
PageReplies == {[ok |-> TRUE, error |-> "", page |-> <<p>>] : p \in Pages}
    \cup {[ok |-> FALSE, error |-> e, page |-> <<>>] : e \in {"HTTPError", "RequestException"}}

\* What the detail endpoint, the video requests and the oEmbed request of a
\* post give: a text on either side of the three minimum lengths, or a
\* request error.
TextReplies ==
    {[ok |-> TRUE, text |-> TextOf(l, l \div 6, l \div 60, l \div 8)] :
        l \in {0, 59, 60, 99, 100, 119, 120, 800}}
        \cup {[ok |-> FALSE, text |-> TextOf(0, 0, 0, 0)]}

NoExtraction ==
    [pc |-> "idle", url |-> <<>>, requests |-> <<>>, route |-> <<>>,
     detail |-> <<>>, page |-> <<>>,
     ret |-> [kind |-> "none", error |-> "", message |-> "", content_kind |-> "",
              text |-> <<>>]]

(***************************************************************************)
(* Model-id resolution (app/groq_utils.py)                                 *)
(***************************************************************************)
preferred == <<"llama-3.3", "llama-3.1", "mixtral", "gemma">>

\* keyword in model_id.lower()
Matches(keyword, model_id) ==
    LET lower == IF model_id = "Mixtral-8x7b-32768" THEN "mixtral-8x7b-32768" ELSE model_id
    IN  keyword \in CASE lower = "llama-3.3-70b-versatile" -> {"llama-3.3"}
                      [] lower = "llama-3.1-8b-instant" -> {"llama-3.1"}
                      [] lower = "llama-3.1-70b" -> {"llama-3.1"}
                      [] lower = "mixtral-8x7b-32768" -> {"mixtral"}
                      [] lower = "gemma2-9b-it" -> {"gemma"}
                      [] OTHER -> {}

\* The first listed model that holds any preferred keyword, else the first listed.
SelectFirstListedMatch(model_ids) ==
    LET any(id) == \E k \in 1..Len(preferred) : Matches(preferred[k], id)
    IN  IF \E i \in 1..Len(model_ids) : any(model_ids[i])
        THEN [matched |-> TRUE,
              id |-> model_ids[CHOOSE i \in 1..Len(model_ids) :
                                  /\ any(model_ids[i])
                                  /\ \A j \in 1..(i - 1) : ~any(model_ids[j])]]
        ELSE [matched |-> FALSE, id |-> model_ids[1]]

\* The two loops over preferred and model_ids, and the fall-back to the first
\* listed model: the id chosen from a non-empty list, and whether a keyword matched.
Select(model_ids) ==
    IF \E k \in 1..Len(preferred), i \in 1..Len(model_ids) : Matches(preferred[k], model_ids[i])
    THEN LET k == CHOOSE k \in 1..Len(preferred) :
                     /\ \E i \in 1..Len(model_ids) : Matches(preferred[k], model_ids[i])
                     /\ \A l \in 1..(k - 1) :
                           \A i \in 1..Len(model_ids) : ~Matches(preferred[l], model_ids[i])
             i == CHOOSE i \in 1..Len(model_ids) :
                     /\ Matches(preferred[k], model_ids[i])
                     /\ \A j \in 1..(i - 1) : ~Matches(preferred[k], model_ids[j])
         IN  [matched |-> TRUE, id |-> model_ids[i]]
    ELSE [matched |-> FALSE, id |-> model_ids[1]]

\* "if CACHED_MODEL_ID and not force_refresh" never taken.
UseCachedNever(cached, force_refresh) == FALSE

\* CACHED_MODEL_ID and not force_refresh
UseCached(cached, force_refresh) == cached # "" /\ ~force_refresh

\* env_model and not force_refresh
UseEnv(env_model, force_refresh) == env_model # "" /\ ~force_refresh

\* What the list request gives: a model list, or an HTTP error.
ListReplies ==
    {[ok |-> TRUE, models |-> <<m>>] :
        m \in { <<>>,
                <<"whisper-large-v3">>,
                <<"whisper-large-v3", "gemma2-9b-it", "llama-3.1-8b-instant">>,
                <<"gemma2-9b-it", "Mixtral-8x7b-32768">>,
                <<"llama-3.1-8b-instant", "llama-3.1-70b", "llama-3.3-70b-versatile">>,
                <<"llama-3.1-70b", "llama-3.1-8b-instant">>,
                <<"qwen-qwq-32b", "whisper-large-v3">> }}
        \cup {[ok |-> FALSE, models |-> <<>>]}

\* The answers met by the concurrent callers.
RaceReplies ==
    {[ok |-> TRUE, models |-> <<m>>] :
        m \in {<<"whisper-large-v3">>, <<"qwen-qwq-32b", "whisper-large-v3">>,
               <<"gemma2-9b-it", "Mixtral-8x7b-32768">>}}

NumCallers == 3
Callers == 1..NumCallers

NoCall ==
    [pc |-> "idle", force_refresh |-> FALSE, seen |-> "", requests |-> 0, models |-> <<>>,
     ret |-> [kind |-> "none", value |-> "", error |-> ""]]

(***************************************************************************)
(* The cache file of one key under concurrent calls (app/cache.py)         *)
(*                                                                         *)
(* json.dump writes the text of a result through a buffered file: the file *)
(* is emptied by open(path, "w") and the text reaches it block by block,   *)
(* each writer at its own offset.  The content of the file is a sequence   *)
(* of cells, one per block: <<r, i>> is block i of the text of result r,   *)
(* <<"", 0>> a gap left by a write past the end of the file.               *)
(***************************************************************************)
NumProcs == 2
Procs == 1..NumProcs

\* The blocks the text of a result is written in.
Blocks == 2

\* The results the model call of a racing analysis can end with.
RaceResults == {"result-a", "result-b"}

NoFile == [exists |-> FALSE, content |-> <<>>, last |-> ""]

NoProc == [pc |-> "idle", result |-> "", written |-> 0,
           ret |-> [kind |-> "none", error |-> "", value |-> <<>>]]

\* write() of one block at the writer's offset pos.
WriteAt(content, pos, cell) ==
    [i \in 1..(IF pos > Len(content) THEN pos ELSE Len(content)) |->
        IF i = pos THEN cell
        ELSE IF i <= Len(content) THEN content[i]
        ELSE <<"", 0>>]

\* json.load of the file: the result each block belongs to, or the
\* JSONDecodeError of a text that is not whole.
JsonLoadFile(content) ==
    IF /\ Len(content) = Blocks
       /\ \A i \in 1..Len(content) : content[i][2] = i
    THEN [ok |-> TRUE, value |-> [i \in 1..Len(content) |-> content[i][1]]]
    ELSE [ok |-> FALSE, value |-> <<>>]

(***************************************************************************)
(* The web application (app/main.py, app/storage.py, app/auth_utils.py)    *)
(***************************************************************************)
SESSION_DAYS == 30

\* The registered users and the values of the session-id cookie.
Users == {1, 2}
SessionIds == {"s1", "s2"}

\* Instants of the UTC clock: the day, and whether the microsecond is 0
\* (micro = 0) or not (micro = 5, for .500000).
Instants == [day : {0, SESSION_DAYS, SESSION_DAYS + 1}, micro : {0, 5}]

\* a is earlier than b.
Before(a, b) == a.day < b.day \/ (a.day = b.day /\ a.micro < b.micro)

(***************************************************************************)
(* State                                                                   *)
(***************************************************************************)
VARIABLES
    scores,     \* the score mapping under test
    norm,       \* results of successive _normalize_scores calls on it
    cal,        \* source label -> result of calibrate_with_source, if called
    text,       \* the text given to safe_json_parse
    parsed,     \* <<>>, or <<what safe_json_parse(text) returned or raised>>
    cache,      \* cache file of each key: <<>> (no file) or <<its content>>
    pc,         \* where the running full_bias_analysis call is
    key,        \* <<source, truncated text>> of the running call
    gq,         \* the running or last groq_call of the call
    raw,        \* <<reply of the first groq_call>>
    repaired,   \* <<reply of the corrective groq_call>>
    ncalls,     \* groq_call invocations of the running call
    ret,        \* what the call returned or raised
    first,      \* key -> <<result and groq_call count of the first call that returned>>
    url,        \* the URL text given to the scraper
    normalized, \* <<>>, or <<what _normalize_url(url) returned or raised>>
    label,      \* <<>>, or <<what detect_source(url) returned or raised>>
    ex,         \* the extract_content call: position, requests made, outcome
    CACHED_MODEL_ID, \* the module global of app/groq_utils.py ("" for None)
    env,        \* the environment: GROQ_MODEL and GROQ_API_KEY ("" when unset)
    callers,    \* the get_available_groq_model calls, one per caller
    file,       \* the cache file of one key: whether it exists, and its content
    procs,      \* the concurrent full_bias_analysis calls on that key
    run,        \* the request being served by analyze or api_analyze
    analysis_history,   \* the rows of the analysis_history table
    analysis_jobs,      \* job id -> <<>> or <<its row of the analysis_jobs table>>
    tasks,      \* job id -> where its process_job background task is
    answer,     \* <<>>, or <<the last request and response of api_job_status>>
    user_sessions,      \* token -> <<>> or <<its row of the user_sessions table>>
    now,        \* the UTC clock
    issued,     \* token -> <<>>, or <<its user, its expiry, whether it was logged out>>
    seen        \* <<>>, or <<the last get_current_user call and its result>>

scoreVars == <<scores, norm, cal>>
parseVars == <<text, parsed>>
pipeVars == <<cache, pc, key, gq, raw, repaired, ncalls, ret, first>>
webVars == <<url, normalized, label, ex>>
modelVars == <<CACHED_MODEL_ID, env, callers>>
raceVars == <<file, procs>>
runVars == <<run, analysis_history>>
jobVars == <<analysis_jobs, tasks, answer>>
authVars == <<user_sessions, now, issued, seen>>
siteVars == <<run, analysis_history, analysis_jobs, tasks, answer, user_sessions, now,
              issued, seen>>
vars == <<scores, norm, cal, text, parsed, cache, pc, key, gq, raw, repaired, ncalls,
          ret, first, url, normalized, label, ex,
          CACHED_MODEL_ID, env, callers, file, procs, run, analysis_history,
          analysis_jobs, tasks, answer, user_sessions, now, issued, seen>>

\* Bounds of the inputs.
NegScore == 2
MaxScore == 5
GridVals == {-150, 75, 333, 500, 999, 1000}

FiniteVals == ((0 - NegScore) .. MaxScore) \cup GridVals
ScoreVals == {Fin(n) : n \in FiniteVals} \cup {NaN, Inf}

\* The parts of the state a specification does not use.
ScoresIdle ==
    /\ scores = DEFAULT_SCORES
    /\ norm = <<>>
    /\ cal = [s \in Sources |-> <<>>]

ParseIdle ==
    /\ text = <<>>
    /\ parsed = <<>>

PipeIdle ==
    /\ cache = [k \in CacheKeys |-> <<>>]
    /\ pc = "idle"
    /\ key = <<>>
    /\ gq = NoFrame
    /\ raw = <<>>
    /\ repaired = <<>>
    /\ ncalls = 0
    /\ ret = NoRet
    /\ first = [k \in CacheKeys |-> <<>>]

WebIdle ==
    /\ url = <<>>
    /\ normalized = <<>>
    /\ label = <<>>
    /\ ex = NoExtraction

SharedIdle ==
    /\ CACHED_MODEL_ID = ""
    /\ env = [GROQ_MODEL |-> "", GROQ_API_KEY |-> ""]
    /\ callers = [c \in Callers |-> NoCall]
    /\ file = NoFile
    /\ procs = [p \in Procs |-> NoProc]

NumJobs == 1
NumTokens == 2

\* Job ids and session tokens, in the order in which they are drawn.
JobIds == 1..NumJobs
SessionTokens == 1..NumTokens

\* No request is being served and the tables are empty.  run holds the
\* stage reached, the requests served so far, the entry point, the values
\* run_analysis_pipeline holds, what it raised, the response, and the key
\* and outcome of the analysis before.
SiteIdle ==
    /\ run = [pc |-> "idle", n |-> 0, entry |-> "", input_url |-> <<>>,
              normalized_url |-> <<>>, text |-> <<>>, source |-> "", stages |-> <<>>,
              raised |-> "", message |-> "", resp |-> <<>>, prev |-> <<>>]
    /\ analysis_history = <<>>
    /\ analysis_jobs = [j \in JobIds |-> <<>>]
    /\ tasks = [j \in JobIds |-> [pc |-> "none", raised |-> ""]]
    /\ answer = <<>>
    /\ user_sessions = [t \in SessionTokens |-> <<>>]
    /\ now = [day |-> 0, micro |-> 0]
    /\ issued = [t \in SessionTokens |-> <<>>]
    /\ seen = <<>>

ScoresInit ==
    /\ scores \in [Keys -> ScoreVals]
    /\ norm = <<>>
    /\ cal = [s \in Sources |-> <<>>]
    /\ ParseIdle
    /\ PipeIdle
    /\ SiteIdle
    /\ WebIdle
    /\ SharedIdle

\* One call of _normalize_scores: first on the input, then on its own output.
Normalize ==
    /\ Len(norm) < 2
    /\ \A s \in Sources : cal[s] = <<>>
    /\ \E ties \in Ties :
          norm' = Append(norm, _normalize_scores(IF norm = <<>> THEN scores
                                                ELSE norm[Len(norm)], ties))
    /\ UNCHANGED <<scores, cal, parseVars, pipeVars, webVars, modelVars, raceVars, siteVars>>

\* One call of calibrate_with_source(scores, source).
Calibrate(source) ==
    /\ norm = <<>>
    /\ cal[source] = <<>>
    /\ \E ties \in Ties :
          cal' = [cal EXCEPT ![source] = <<calibrate_with_source(scores, source, ties)>>]
    /\ UNCHANGED <<scores, norm, parseVars, pipeVars, webVars, modelVars, raceVars, siteVars>>

ScoresNext ==
    \/ Normalize
    \/ \E source \in Sources : Calibrate(source)

SpecScores == ScoresInit /\ [][ScoresNext]_vars

(***************************************************************************)
(* safe_json_parse on its own                                              *)
(***************************************************************************)
MaxTextLen == 6

Texts == UNION {[1..n -> Tokens] : n \in 0..MaxTextLen}

ParseInit ==
    /\ text \in Texts
    /\ parsed = <<>>
    /\ ScoresIdle
    /\ PipeIdle
    /\ SiteIdle
    /\ WebIdle
    /\ SharedIdle

\* One call of safe_json_parse(text).
Parse ==
    /\ parsed = <<>>
    /\ parsed' = <<safe_json_parse(text)>>
    /\ UNCHANGED <<text, scoreVars, pipeVars, webVars, modelVars, raceVars, siteVars>>

ParseNext == Parse

SpecParse == ParseInit /\ [][ParseNext]_vars

(***************************************************************************)
(* The analysis pipeline: full_bias_analysis, step by step                 *)
(***************************************************************************)
MaxEntries == 1

Entries == {k \in CacheKeys : cache[k] # <<>>}

Init ==
    /\ PipeIdle
    /\ SiteIdle
    /\ ScoresIdle
    /\ ParseIdle
    /\ WebIdle
    /\ SharedIdle

\* The reply the call is about to parse.
Reply == IF gq.purpose = "raw" THEN raw[1] ELSE repaired[1]

\* full_bias_analysis(article, source) finds the key in the cache and returns
\* the cached dict.
AnalyzeHit(article, source) ==
    LET k == CacheKeyOf(source, Truncate(article))
        cached == get_cached_result(cache, k)
    IN  /\ pc = "idle"
        /\ cached # <<>>
        /\ key' = k
        /\ ncalls' = 0
        /\ ret' = [NoRet EXCEPT !.kind = "ok", !.value = <<BackFill(cached[1])>>,
                                !.second = (first[k] # <<>>)]
        /\ first' = IF first[k] = <<>>
                    THEN [first EXCEPT ![k] = <<[result |-> BackFill(cached[1]),
                                                 ncalls |-> 0]>>]
                    ELSE first
        /\ pc' = "returned"
        /\ UNCHANGED <<cache, gq, raw, repaired, scoreVars, parseVars,
                       webVars, modelVars, raceVars, siteVars>>

\* full_bias_analysis(article, source) misses the cache and enters groq_call.
AnalyzeMiss(article, source) ==
    LET k == CacheKeyOf(source, Truncate(article))
    IN  /\ pc = "idle"
        /\ get_cached_result(cache, k) = <<>>
        /\ Cardinality(Entries) < MaxEntries
        /\ key' = k
        /\ ncalls' = 1
        /\ gq' = NewFrame("raw")
        /\ pc' = "groq"
        /\ UNCHANGED <<cache, raw, repaired, ret, first, scoreVars, parseVars,
                       webVars, modelVars, raceVars, siteVars>>

\* One attempt of groq_call fails (an exception, or an empty reply) and the
\* loop sleeps and goes on.
AttemptFailsRetry(err) ==
    /\ pc = "groq"
    /\ RetryAllowed(gq.attempt)
    /\ gq' = [gq EXCEPT !.last_error = err,
                        !.errors = Append(@, err),
                        !.made = @ + 1,
                        !.slept = Append(@, BACKOFF * (gq.attempt + 1)),
                        !.attempt = @ + 1]
    /\ UNCHANGED <<cache, pc, key, raw, repaired, ncalls, ret, first, scoreVars, parseVars,
                   webVars, modelVars, raceVars, siteVars>>

\* The last attempt of groq_call fails: RuntimeError, which full_bias_analysis
\* lets through.
AttemptFailsLast(err) ==
    /\ pc = "groq"
    /\ ~RetryAllowed(gq.attempt)
    /\ gq' = [gq EXCEPT !.last_error = err,
                        !.errors = Append(@, err),
                        !.made = @ + 1,
                        !.status = "raised"]
    /\ ret' = [NoRet EXCEPT !.kind = "err", !.error = "RuntimeError",
                            !.cause = err, !.stage = "groq_call"]
    /\ pc' = "returned"
    /\ UNCHANGED <<cache, key, raw, repaired, ncalls, first, scoreVars, parseVars,
                   webVars, modelVars, raceVars, siteVars>>

\* One attempt of groq_call gets a non-empty reply: groq_call returns it.
AttemptReturns(reply) ==
    /\ pc = "groq"
    /\ gq' = [gq EXCEPT !.made = @ + 1, !.status = "returned",
                        !.last_error = "", !.errors = <<>>]
    /\ IF gq.purpose = "raw"
       THEN raw' = <<reply>> /\ UNCHANGED repaired
       ELSE repaired' = <<reply>> /\ UNCHANGED raw
    /\ pc' = "parse"
    /\ UNCHANGED <<cache, key, ncalls, ret, first, scoreVars, parseVars,
                   webVars, modelVars, raceVars, siteVars>>

\* Mutant: the entry is written before the result is assembled, so a reply
\* whose scores cannot be coerced leaves an entry of defaults behind.
ParseStoresFirst ==
    /\ pc = "parse"
    /\ AfterParse(gq.purpose, safe_json_parse(Reply.shape).ok) = "finish"
    /\ \E a \in {Assemble(safe_json_parse(Reply.shape).value, Reply.body,
                           key[1], ties1, ties2) : ties1, ties2 \in Ties} :
              IF a.raised # ""
              THEN /\ ret' = [NoRet EXCEPT !.kind = "err", !.error = a.raised,
                                           !.stage = a.stage]
                   /\ cache' = save_cached_result(cache, key,
                                   [summary |-> <<>>, essay |-> <<>>, top_signal |-> <<>>,
                                    global_perspective |-> <<>>,
                                    bias_scores |-> DEFAULT_SCORES])
                   /\ UNCHANGED first
              ELSE /\ cache' = save_cached_result(cache, key, a.result[1])
                   /\ ret' = [NoRet EXCEPT !.kind = "ok", !.value = a.result,
                                           !.second = (first[key] # <<>>)]
                   /\ first' = IF first[key] = <<>>
                               THEN [first EXCEPT ![key] =
                                        <<[result |-> a.result[1], ncalls |-> ncalls]>>]
                               ELSE first
    /\ pc' = "returned"
    /\ UNCHANGED <<key, gq, raw, repaired, ncalls, scoreVars, parseVars,
                   webVars, modelVars, raceVars, siteVars>>

\* safe_json_parse accepts the reply: the result is assembled, cached and
\* returned, or an exception leaves the call.
ParseFinishes ==
    /\ pc = "parse"
    /\ AfterParse(gq.purpose, safe_json_parse(Reply.shape).ok) = "finish"
    /\ \E a \in {Assemble(safe_json_parse(Reply.shape).value, Reply.body,
                           key[1], ties1, ties2) : ties1, ties2 \in Ties} :
              IF a.raised # ""
              THEN /\ ret' = [NoRet EXCEPT !.kind = "err", !.error = a.raised,
                                           !.stage = a.stage]
                   /\ UNCHANGED <<cache, first>>
              ELSE /\ cache' = save_cached_result(cache, key, a.result[1])
                   /\ ret' = [NoRet EXCEPT !.kind = "ok", !.value = a.result,
                                           !.second = (first[key] # <<>>)]
                   /\ first' = IF first[key] = <<>>
                               THEN [first EXCEPT ![key] =
                                        <<[result |-> a.result[1], ncalls |-> ncalls]>>]
                               ELSE first
    /\ pc' = "returned"
    /\ UNCHANGED <<key, gq, raw, repaired, ncalls, scoreVars, parseVars,
                   webVars, modelVars, raceVars, siteVars>>

\* safe_json_parse rejects the first reply: the corrective groq_call starts.
ParseRepairs ==
    /\ pc = "parse"
    /\ AfterParse(gq.purpose, safe_json_parse(Reply.shape).ok) = "repair"
    /\ ncalls' = ncalls + 1
    /\ gq' = NewFrame("repair")
    /\ pc' = "groq"
    /\ UNCHANGED <<cache, key, raw, repaired, ret, first, scoreVars, parseVars,
                   webVars, modelVars, raceVars, siteVars>>

\* safe_json_parse rejects the corrected reply too: its error leaves the call.
ParseRaises ==
    /\ pc = "parse"
    /\ AfterParse(gq.purpose, safe_json_parse(Reply.shape).ok) = "raise"
    /\ ret' = [NoRet EXCEPT !.kind = "err",
                            !.error = safe_json_parse(Reply.shape).error,
                            !.stage = "parse"]
    /\ pc' = "returned"
    /\ UNCHANGED <<cache, key, gq, raw, repaired, ncalls, first, scoreVars, parseVars,
                   webVars, modelVars, raceVars, siteVars>>

\* The caller has the result or the exception; the next call can start.
Return ==
    /\ pc = "returned"
    /\ pc' = "idle"
    /\ key' = <<>>
    /\ gq' = NoFrame
    /\ raw' = <<>>
    /\ repaired' = <<>>
    /\ ncalls' = 0
    /\ ret' = NoRet
    /\ UNCHANGED <<cache, first, scoreVars, parseVars, webVars, modelVars, raceVars, siteVars>>

Attempt ==
    \/ \E err \in AttemptErrors : AttemptFailsRetry(err)
    \/ \E err \in AttemptErrors : AttemptFailsLast(err)
    \/ \E reply \in Replies : AttemptReturns(reply)

Next ==
    \/ \E article \in ArticleTexts, source \in Sources : AnalyzeHit(article, source)
    \/ \E article \in ArticleTexts, source \in Sources : AnalyzeMiss(article, source)
    \/ Attempt
    \/ ParseFinishes
    \/ ParseRepairs
    \/ ParseRaises
    \/ Return

Spec == Init /\ [][Next]_vars

\* A started completion attempt ends: the client call returns or raises.
FairSpec == Spec /\ WF_vars(Attempt)

(***************************************************************************)
(* The scraper: _normalize_url and detect_source on their own, and         *)
(* extract_content                                                         *)
(***************************************************************************)
WebInit ==
    /\ url \in UrlTexts
    /\ normalized = <<>>
    /\ label = <<>>
    /\ ex = NoExtraction
    /\ ScoresIdle
    /\ ParseIdle
    /\ PipeIdle
    /\ SiteIdle
    /\ SharedIdle

\* One call of _normalize_url(url).
NormalizeUrl ==
    /\ normalized = <<>>
    /\ normalized' = <<_normalize_url(url)>>
    /\ UNCHANGED <<url, label, ex, scoreVars, parseVars, pipeVars, modelVars, raceVars, siteVars>>

\* One call of detect_source(url).
DetectSource ==
    /\ label = <<>>
    /\ label' = <<detect_source(url)>>
    /\ UNCHANGED <<url, normalized, ex, scoreVars, parseVars, pipeVars, modelVars, raceVars, siteVars>>

(***************************************************************************)
(* extract_content, request by request                                     *)
(***************************************************************************)
ExRaise(e, error, message) ==
    [e EXCEPT !.pc = "done", !.ret.kind = "err", !.ret.error = error,
              !.ret.message = message]

ExReturn(e, got, content_kind) ==
    [e EXCEPT !.pc = "done", !.ret.kind = "ok", !.ret.text = <<got>>,
              !.ret.content_kind = content_kind]

\* extract_content(url) up to the choice of the strategy.
ExtractStart ==
    LET n == _normalize_url(url)
        domain == LowerAll(urlparse(n.url).netloc)
        strategy == IF _is_youtube_domain(domain) THEN "video"
                    ELSE IF _is_twitter_domain(domain) THEN "post"
                    ELSE IF Contains(domain, "msn.com") THEN "detail"
                    ELSE "page"
    IN  /\ ex.pc = "idle"
        /\ ex' = IF n.raised # ""
                 THEN ExRaise(ex, n.raised, n.message)
                 ELSE [ex EXCEPT !.pc = strategy, !.url = n.url, !.route = <<strategy>>]
        /\ UNCHANGED <<url, normalized, label, scoreVars, parseVars, pipeVars, modelVars,
                 raceVars, siteVars>>

\* _extract_youtube_content: without a video id it raises before any
\* request; with one it makes the embed-info and watch-page requests (a
\* failed one adds no part), and the joined text is returned or found too
\* short.
VideoFetches(reply) ==
    /\ ex.pc = "video"
    /\ LET e == [ex EXCEPT !.requests = @ \o <<"oembed", "watch">>]
           joined == IF reply.ok THEN reply.text ELSE TextOf(0, 0, 0, 0)
       IN  ex' = IF IdMissing(_extract_youtube_video_id(ex.url))
                 THEN ExRaise(ex, "ScrapeError",
                              "Could not parse YouTube video ID from this URL.")
                 ELSE IF joined.len < YOUTUBE_MIN_LEN
                 THEN ExRaise(e, "ScrapeError",
                              "Could not extract enough text from this YouTube video.")
                 ELSE ExReturn(e, joined, "youtube-video")
    /\ UNCHANGED <<url, normalized, label, scoreVars, parseVars, pipeVars, modelVars,
                 raceVars, siteVars>>

\* _extract_twitter_content: the oEmbed request.
PostFetches(reply) ==
    /\ ex.pc = "post"
    /\ LET e == [ex EXCEPT !.requests = Append(@, "oembed")]
       IN  ex' = IF ~reply.ok THEN ExRaise(e, "ScrapeError", "Could not fetch tweet details.")
                 ELSE IF reply.text.len < TWEET_MIN_LEN
                 THEN ExRaise(e, "ScrapeError",
                              "Could not extract enough text from this social post.")
                 ELSE ExReturn(e, reply.text, "social-post")
    /\ UNCHANGED <<url, normalized, label, scoreVars, parseVars, pipeVars, modelVars,
                 raceVars, siteVars>>

\* _extract_msn_detail_text: a URL without an article id gives "" without a
\* request, and extract_content goes on to the page request; with an id the
\* detail endpoint is asked.
DetailFetches(reply) ==
    /\ ex.pc = "detail"
    /\ LET e == [ex EXCEPT !.requests = Append(@, "detail"),
                           !.detail = <<[asked |-> TRUE, ok |-> reply.ok,
                                         text |-> reply.text]>>]
       IN  ex' = IF MsnArticleId(ex.url) = ""
                 THEN [ex EXCEPT !.pc = "page", !.route = Append(@, "page"),
                                 !.detail = <<[asked |-> FALSE, ok |-> TRUE,
                                               text |-> TextOf(0, 0, 0, 0)]>>]
                 ELSE IF ~reply.ok
                 THEN ExRaise(e, "ScrapeError", "Could not fetch article data from MSN.")
                 ELSE IF MsnAccepts(reply.text)
                 THEN ExReturn(e, reply.text, "msn-detail")
                 ELSE [e EXCEPT !.pc = "page", !.route = Append(@, "page")]
    /\ UNCHANGED <<url, normalized, label, scoreVars, parseVars, pipeVars, modelVars,
                 raceVars, siteVars>>

\* The page request and the acceptance of its best candidate.
PageFetches(reply) ==
    /\ ex.pc = "page"
    /\ LET e == [ex EXCEPT !.requests = Append(@, "page"), !.page = reply.page]
           page == reply.page[1]
           a == Accept(LikelyArticle(urlparse(ex.url).path, page.signals),
                       Best(page.candidates))
       IN  ex' = IF ~reply.ok
                 THEN ExRaise(e, "ScrapeError",
                              IF reply.error = "HTTPError" THEN "Website blocked access."
                              ELSE "Could not load this page.")
                 ELSE IF a.raised # ""
                 THEN ExRaise(e, "ScrapeError", a.raised)
                 ELSE ExReturn(e, a.text[1], a.kind)
    /\ UNCHANGED <<url, normalized, label, scoreVars, parseVars, pipeVars, modelVars,
                 raceVars, siteVars>>

WebNext ==
    \/ NormalizeUrl
    \/ DetectSource
    \/ ExtractStart
    \/ \E reply \in TextReplies : VideoFetches(reply)
    \/ \E reply \in TextReplies : PostFetches(reply)
    \/ \E reply \in TextReplies : DetailFetches(reply)
    \/ \E reply \in PageReplies : PageFetches(reply)

SpecWeb == WebInit /\ [][WebNext]_vars

(***************************************************************************)
(* get_available_groq_model: one caller after another (SpecModel), and     *)
(* concurrent callers (SpecModelRace)                                      *)
(***************************************************************************)
\* The call ends: it returns an id (kind "ok") or raises an error ("err").
CallEnds(call, kind, what) ==
    [call EXCEPT !.pc = "done",
                 !.ret = [kind |-> kind,
                          value |-> IF kind = "ok" THEN what ELSE "",
                          error |-> IF kind = "err" THEN what ELSE ""]]

\* The call reads the environment override and the cached id: it returns one
\* of them, or goes on to the discovery.
Check(c, force_refresh) ==
    LET call == [callers[c] EXCEPT !.force_refresh = force_refresh,
                                   !.seen = CACHED_MODEL_ID]
    IN  /\ callers[c].pc = "idle"
        /\ callers' = [callers EXCEPT ![c] =
              IF UseEnv(env.GROQ_MODEL, force_refresh)
              THEN CallEnds(call, "ok", env.GROQ_MODEL)
              ELSE IF UseCached(CACHED_MODEL_ID, force_refresh)
              THEN CallEnds(call, "ok", CACHED_MODEL_ID)
              ELSE [call EXCEPT !.pc = "discover"]]
        /\ UNCHANGED <<CACHED_MODEL_ID, env, scoreVars, parseVars, pipeVars, webVars, raceVars, siteVars>>

\* No API key: RuntimeError before any request.
NoApiKey(c) ==
    /\ callers[c].pc = "discover"
    /\ env.GROQ_API_KEY = ""
    /\ callers' = [callers EXCEPT ![c] = CallEnds(@, "err", "GROQ_API_KEY not set")]
    /\ UNCHANGED <<CACHED_MODEL_ID, env, scoreVars, parseVars, pipeVars, webVars, raceVars, siteVars>>

\* The list request and the choice of the model: the chosen id is stored in
\* CACHED_MODEL_ID; a keyword match returns it at once.
Discover(c, reply) ==
    LET call == [callers[c] EXCEPT !.requests = @ + 1, !.models = reply.models]
        chosen == Select(reply.models[1])
    IN  /\ callers[c].pc = "discover"
        /\ env.GROQ_API_KEY # ""
        /\ IF ~reply.ok
           THEN /\ callers' = [callers EXCEPT ![c] = CallEnds(call, "err", "HTTPError")]
                /\ UNCHANGED CACHED_MODEL_ID
           ELSE IF reply.models[1] = <<>>
           THEN /\ callers' = [callers EXCEPT ![c] =
                                  CallEnds(call, "err", "No Groq models available")]
                /\ UNCHANGED CACHED_MODEL_ID
           ELSE /\ CACHED_MODEL_ID' = chosen.id
                /\ callers' = [callers EXCEPT ![c] =
                                  IF chosen.matched THEN CallEnds(call, "ok", chosen.id)
                                  ELSE [call EXCEPT !.pc = "fallback"]]
        /\ UNCHANGED <<env, scoreVars, parseVars, pipeVars, webVars, raceVars, siteVars>>

\* "return CACHED_MODEL_ID" after the fall-back to the first listed model.
ReturnFallback(c) ==
    /\ callers[c].pc = "fallback"
    /\ callers' = [callers EXCEPT ![c] = CallEnds(@, "ok", CACHED_MODEL_ID)]
    /\ UNCHANGED <<CACHED_MODEL_ID, env, scoreVars, parseVars, pipeVars, webVars, raceVars, siteVars>>

\* The caller has its answer and may call again.
CallAgain(c) ==
    /\ callers[c].pc = "done"
    /\ callers' = [callers EXCEPT ![c] = NoCall]
    /\ UNCHANGED <<CACHED_MODEL_ID, env, scoreVars, parseVars, pipeVars, webVars, raceVars, siteVars>>

ModelInit ==
    /\ CACHED_MODEL_ID = ""
    /\ env \in [GROQ_MODEL : {"", "env-model"}, GROQ_API_KEY : {"", "gsk-key"}]
    /\ callers = [c \in Callers |-> NoCall]
    /\ ScoresIdle
    /\ ParseIdle
    /\ PipeIdle
    /\ SiteIdle
    /\ WebIdle
    /\ file = NoFile
    /\ procs = [p \in Procs |-> NoProc]

\* One caller, call after call.
ModelNext ==
    \/ \E force_refresh \in BOOLEAN : Check(1, force_refresh)
    \/ NoApiKey(1)
    \/ \E reply \in ListReplies : Discover(1, reply)
    \/ ReturnFallback(1)
    \/ CallAgain(1)

SpecModel == ModelInit /\ [][ModelNext]_vars

ModelRaceInit ==
    /\ CACHED_MODEL_ID = ""
    /\ env = [GROQ_MODEL |-> "", GROQ_API_KEY |-> "gsk-key"]
    /\ callers = [c \in Callers |-> NoCall]
    /\ ScoresIdle
    /\ ParseIdle
    /\ PipeIdle
    /\ SiteIdle
    /\ WebIdle
    /\ file = NoFile
    /\ procs = [p \in Procs |-> NoProc]

\* Every caller makes one call, the steps of the calls interleaved.
ModelRaceNext ==
    \/ \E c \in Callers : Check(c, FALSE)
    \/ \E c \in Callers, reply \in RaceReplies : Discover(c, reply)
    \/ \E c \in Callers : ReturnFallback(c)

SpecModelRace == ModelRaceInit /\ [][ModelRaceNext]_vars

(***************************************************************************)
(* Concurrent full_bias_analysis calls on one cache key (SpecRace)         *)
(***************************************************************************)
\* The calls start from the initial state of the pipeline: no cache file.
\* get_cached_result: no file is a miss; a file is opened and loaded, and a
\* JSONDecodeError leaves full_bias_analysis.
CacheLookup(p) ==
    LET loaded == JsonLoadFile(file.content)
    IN  /\ procs[p].pc = "idle"
        /\ procs' = [procs EXCEPT ![p] =
              IF ~file.exists THEN [@ EXCEPT !.pc = "model"]
              ELSE IF loaded.ok
              THEN [@ EXCEPT !.pc = "done", !.ret.kind = "ok", !.ret.value = loaded.value]
              ELSE [@ EXCEPT !.pc = "done", !.ret.kind = "err",
                             !.ret.error = "JSONDecodeError"]]
        /\ UNCHANGED <<file, scoreVars, parseVars, pipeVars, webVars, modelVars, siteVars>>

\* The model call and the assembly of the result.
ModelCall(p, r) ==
    /\ procs[p].pc = "model"
    /\ procs' = [procs EXCEPT ![p] = [@ EXCEPT !.pc = "save", !.result = r]]
    /\ UNCHANGED <<file, scoreVars, parseVars, pipeVars, webVars, modelVars, siteVars>>

\* save_cached_result: open(path, "w").
OpenFile(p) ==
    /\ procs[p].pc = "save"
    /\ file' = [file EXCEPT !.exists = TRUE, !.content = <<>>]
    /\ procs' = [procs EXCEPT ![p] = [@ EXCEPT !.pc = "write", !.written = 0]]
    /\ UNCHANGED <<scoreVars, parseVars, pipeVars, webVars, modelVars, siteVars>>

\* save_cached_result: one block of json.dump reaches the file.
WriteBlock(p) ==
    /\ procs[p].pc = "write"
    /\ procs[p].written < Blocks
    /\ file' = [file EXCEPT !.content = WriteAt(@, procs[p].written + 1,
                                                <<procs[p].result, procs[p].written + 1>>)]
    /\ procs' = [procs EXCEPT ![p] = [@ EXCEPT !.written = @ + 1]]
    /\ UNCHANGED <<scoreVars, parseVars, pipeVars, webVars, modelVars, siteVars>>

\* save_cached_result: the file is closed and full_bias_analysis returns.
CloseFile(p) ==
    /\ procs[p].pc = "write"
    /\ procs[p].written = Blocks
    /\ file' = [file EXCEPT !.last = procs[p].result]
    /\ procs' = [procs EXCEPT ![p] =
          [@ EXCEPT !.pc = "done", !.ret.kind = "ok",
                    !.ret.value = [i \in 1..Blocks |-> procs[p].result]]]
    /\ UNCHANGED <<scoreVars, parseVars, pipeVars, webVars, modelVars, siteVars>>

RaceNext ==
    \/ \E p \in Procs : CacheLookup(p)
    \/ \E p \in Procs, r \in RaceResults : ModelCall(p, r)
    \/ \E p \in Procs : OpenFile(p)
    \/ \E p \in Procs : WriteBlock(p)
    \/ \E p \in Procs : CloseFile(p)

SpecRace == Init /\ [][RaceNext]_vars

(***************************************************************************)
(* An analysis request, stage by stage: analyze, api_analyze and           *)
(* run_analysis_pipeline (app/main.py); full_bias_analysis as in Spec      *)
(***************************************************************************)
MaxRuns == 2

\* What is submitted and what the network gives the extractor: the entry
\* point ("form" for /analyze, "api" for /api/analyze), the URL text, and
\* the outcome of extract_content once the URL is normalised.
Submissions ==
    LET urls == { <<"https", ":", "/", "/", "www.foxnews.com", "/", "politics", "/",
                    "senate-passes-budget-after-long-debate">>,
                  <<" ">>,
                  <<"https", ":", "/", "/", "[::1">> }
        extractions ==
            { [raised |-> "", message |-> "",
               text |-> <<[len |-> 120, head |-> "a", tail |-> ""]>>],
              [raised |-> "ScrapeError", message |-> "Could not load this page.",
               text |-> <<>>] }
    IN  [entry : {"form", "api"}, url : urls, extraction : extractions]

\* The request ends with an exception out of run_analysis_pipeline: analyze
\* catches ScrapeError and Exception; api_analyze catches nothing, and the
\* framework answers an unhandled exception with status 500.
Raised(r, raised, message) ==
    LET resp ==
            IF r.entry = "form"
            THEN IF raised = "ScrapeError"
                 THEN [status |-> 400, error |-> message]
                 ELSE [status |-> 500,
                       error |-> "Analysis failed. Please try again in a moment."]
            ELSE [status |-> 500, error |-> "Internal Server Error"]
    IN  [r EXCEPT !.pc = "done", !.raised = raised, !.message = message,
                  !.resp = <<resp>>]

\* An entry point calls run_analysis_pipeline, which calls extract_content.
RunExtract(s) ==
    /\ run.pc \in {"idle", "done"}
    /\ pc = "idle"
    /\ run.n < MaxRuns
    /\ LET n == _normalize_url(s.url)
           r == [run EXCEPT !.n = @ + 1, !.entry = s.entry, !.input_url = s.url,
                            !.normalized_url = <<>>, !.text = <<>>, !.source = "",
                            !.stages = <<"extract">>, !.raised = "", !.message = "",
                            !.resp = <<>>]
       IN  run' = IF n.raised # "" THEN Raised(r, n.raised, n.message)
                  ELSE IF s.extraction.raised # ""
                  THEN Raised(r, s.extraction.raised, s.extraction.message)
                  ELSE [r EXCEPT !.pc = "classify", !.normalized_url = n.url,
                                 !.text = s.extraction.text]
    /\ UNCHANGED <<analysis_history, scoreVars, parseVars, pipeVars, webVars, modelVars,
                   raceVars, jobVars, authVars>>

\* source = detect_source(normalized_url)
RunClassify ==
    /\ run.pc = "classify"
    /\ LET d == detect_source(run.normalized_url)
       IN  run' = IF d.raised # "" THEN Raised(run, d.raised, "")
                  ELSE [run EXCEPT !.pc = "analyze", !.source = d.label,
                                   !.stages = Append(@, "classify")]
    /\ UNCHANGED <<analysis_history, scoreVars, parseVars, pipeVars, webVars, modelVars,
                   raceVars, jobVars, authVars>>

\* save_history writes no row.
NoHistoryRow(rows, r) == rows

\* save_history(...): one row more.
save_history(rows, r) ==
    Append(rows, [input_url |-> r.input_url, normalized_url |-> r.normalized_url,
                  source |-> r.source])

\* full_bias_analysis has returned or raised: with a result
\* run_analysis_pipeline saves the history row and returns, and the entry
\* point answers 200; an exception leaves it.
RunSave ==
    /\ run.pc = "analyze"
    /\ pc = "returned"
    /\ LET r == [run EXCEPT !.stages = Append(@, "analyze"),
                            !.prev = <<[key |-> key, failed |-> ret.kind = "err"]>>]
       IN  IF ret.kind = "ok"
           THEN /\ analysis_history' = save_history(analysis_history, run)
                /\ run' = [r EXCEPT !.pc = "done", !.stages = Append(@, "history"),
                                    !.resp = <<[status |-> 200, error |-> ""]>>]
           ELSE /\ run' = Raised(r, ret.error, ret.cause)
                /\ UNCHANGED analysis_history
    /\ UNCHANGED <<scoreVars, parseVars, pipeVars, webVars, modelVars, raceVars, jobVars,
                   authVars>>

RunNext ==
    \/ \E s \in Submissions : RunExtract(s)
    \/ RunClassify
    \/ (run.pc = "analyze" /\ AnalyzeHit(run.text[1], run.source))
    \/ (run.pc = "analyze" /\ AnalyzeMiss(run.text[1], run.source))
    \/ Attempt
    \/ ParseFinishes
    \/ ParseRepairs
    \/ ParseRaises
    \/ RunSave
    \/ (run.pc = "done" /\ Return)

SpecRun == Init /\ [][RunNext]_vars

(***************************************************************************)
(* Background jobs: api_create_job, process_job, api_job_status            *)
(* (app/main.py) on the analysis_jobs table (app/storage.py).  A requester *)
(* is what ensure_session_id and get_current_user make of the request:     *)
(* the session id, and the id of the user (0 for None).                    *)
(***************************************************************************)
\* POST /api/jobs: create_job under a fresh job id, and the process_job task
\* is added to the background tasks.
ApiCreateJob(user_id, session_id) ==
    /\ \E j \in JobIds :
          /\ analysis_jobs[j] = <<>>
          /\ \A i \in 1..(j - 1) : analysis_jobs[i] # <<>>
          /\ analysis_jobs' =
                [analysis_jobs EXCEPT ![j] =
                    <<[session_id |-> session_id, user_id |-> user_id,
                       status |-> "queued", error |-> <<>>, result_json |-> <<>>]>>]
          /\ tasks' = [tasks EXCEPT ![j] = [pc |-> "pending", raised |-> ""]]
    /\ UNCHANGED <<answer, scoreVars, parseVars, pipeVars, webVars, modelVars, raceVars,
                   runVars, authVars>>

\* Mutant: process_job without the handler, an exception of the pipeline
\* ends the task and the row is left as it is.
ProcessJobNoHandler(j, raised) ==
    /\ tasks[j].pc \in {"pending", "pipeline"}
    /\ LET row == analysis_jobs[j][1]
           update_job_status(status, error, result) ==
               [analysis_jobs EXCEPT ![j] =
                   <<[row EXCEPT !.status = status, !.error = error,
                                 !.result_json = result]>>]
       IN  IF tasks[j].pc = "pending"
           THEN /\ analysis_jobs' = update_job_status("running", <<>>, <<>>)
                /\ tasks' = [tasks EXCEPT ![j].pc = "pipeline"]
           ELSE /\ analysis_jobs' = IF raised = ""
                                    THEN update_job_status("done", <<>>, <<"result">>)
                                    ELSE analysis_jobs
                /\ tasks' = [tasks EXCEPT ![j] = [pc |-> "ended", raised |-> raised]]
    /\ UNCHANGED <<answer, scoreVars, parseVars, pipeVars, webVars, modelVars, raceVars,
                   runVars, authVars>>

\* process_job(job_id, ...), one update_job_status at a time: "running"
\* before run_analysis_pipeline is called; then "done" with the result it
\* returned, or "failed" with str(e) of the exception it raised (raised is
\* "" when it returns).
ProcessJob(j, raised) ==
    /\ tasks[j].pc \in {"pending", "pipeline"}
    /\ LET row == analysis_jobs[j][1]
           message == IF raised = "ScrapeError" THEN "Could not load this page."
                      ELSE "Groq call failed after retries: APIError"
           update_job_status(status, error, result) ==
               [analysis_jobs EXCEPT ![j] =
                   <<[row EXCEPT !.status = status, !.error = error,
                                 !.result_json = result]>>]
       IN  IF tasks[j].pc = "pending"
           THEN /\ analysis_jobs' = update_job_status("running", <<>>, <<>>)
                /\ tasks' = [tasks EXCEPT ![j].pc = "pipeline"]
           ELSE /\ analysis_jobs' = IF raised = ""
                                    THEN update_job_status("done", <<>>, <<"result">>)
                                    ELSE update_job_status("failed", <<message>>, <<>>)
                /\ tasks' = [tasks EXCEPT ![j] = [pc |-> "ended", raised |-> raised]]
    /\ UNCHANGED <<answer, scoreVars, parseVars, pipeVars, webVars, modelVars, raceVars,
                   runVars, authVars>>

\* GET /api/jobs/{job_id}: 404 for an unknown id, 403 for a requester the
\* check refuses, else the status, error and result of the row.
ApiJobStatus(j, user_id, session_id) ==
    /\ LET job == analysis_jobs[j]
           status_code ==
               IF job = <<>> THEN 404
               ELSE IF user_id # 0
               THEN IF job[1].user_id # user_id THEN 403 ELSE 200
               ELSE IF job[1].session_id # session_id THEN 403 ELSE 200
       IN  answer' = <<[job_id |-> j, user_id |-> user_id, session_id |-> session_id,
                        status_code |-> status_code,
                        body |-> IF status_code = 200
                                 THEN <<[status |-> job[1].status, error |-> job[1].error,
                                         result |-> job[1].result_json]>>
                                 ELSE <<>>]>>
    /\ UNCHANGED <<analysis_jobs, tasks, scoreVars, parseVars, pipeVars, webVars, modelVars,
                   raceVars, runVars, authVars>>

JobsNext ==
    \/ \E u \in Users \cup {0}, sid \in SessionIds : ApiCreateJob(u, sid)
    \/ \E j \in JobIds, raised \in {"", "ScrapeError", "RuntimeError"} : ProcessJob(j, raised)
    \/ \E j \in JobIds, u \in Users \cup {0}, sid \in SessionIds : ApiJobStatus(j, u, sid)

\* A background task that was added is run after the response, and
\* run_analysis_pipeline ends: its requests have timeouts and its retries
\* are bounded.
SpecJobs ==
    /\ Init
    /\ [][JobsNext]_vars
    /\ \A j \in JobIds :
          WF_vars(\E raised \in {"", "ScrapeError", "RuntimeError"} : ProcessJob(j, raised))

(***************************************************************************)
(* Login sessions: signup, login, logout and get_current_user              *)
(* (app/main.py) on the user_sessions table (app/storage.py).  A row holds *)
(* the instant whose isoformat() text the expires_at column stores; the    *)
(* texts are formed where they are compared.                               *)
(***************************************************************************)
\* Mutant: the expiry of the row is not looked at.
LookupKeepsExpired(rows, token, t) ==
    IF rows[token] = <<>> THEN [user |-> 0, rows |-> rows]
    ELSE [user |-> rows[token][1].user_id, rows |-> rows]

\* get_user_by_session_token(token) at instant t: the id of the user (0 for
\* None) and the table it leaves.  No code deletes a users row.
get_user_by_session_token(rows, token, t) ==
    LET \* datetime.isoformat() of a UTC instant: the microsecond is left out
        \* when it is 0, so the text after the second is "+00:00" or
        \* ".500000+00:00".
        isoformat(i) == IF i.micro = 0 THEN <<i.day, "+">> ELSE <<i.day, ".", i.micro>>
        \* a < b of two such texts: character by character, "+" < ".".
        TextLess(a, b) ==
            \/ a[1] < b[1]
            \/ /\ a[1] = b[1]
               /\ \/ a[2] = "+" /\ b[2] = "."
                  \/ a[2] = "." /\ b[2] = "." /\ a[3] < b[3]
    IN  IF rows[token] = <<>> THEN [user |-> 0, rows |-> rows]
        ELSE IF TextLess(isoformat(rows[token][1].expires_at), isoformat(t))
        THEN [user |-> 0, rows |-> [rows EXCEPT ![token] = <<>>]]
        ELSE [user |-> rows[token][1].user_id, rows |-> rows]

\* signup or login of a user at instant t: create_user_session under a fresh
\* token that expires SESSION_DAYS later.
Login(user_id, t) ==
    /\ ~Before(t, now)
    /\ \E token \in SessionTokens :
          /\ issued[token] = <<>>
          /\ \A i \in 1..(token - 1) : issued[i] # <<>>
          /\ LET expires_at == [day |-> t.day + SESSION_DAYS, micro |-> t.micro]
             IN  /\ user_sessions' = [user_sessions EXCEPT ![token] =
                        <<[user_id |-> user_id, expires_at |-> expires_at]>>]
                 /\ issued' = [issued EXCEPT ![token] =
                        <<[user_id |-> user_id, expires |-> expires_at, out |-> FALSE]>>]
    /\ now' = t
    /\ seen' = <<>>
    /\ UNCHANGED <<scoreVars, parseVars, pipeVars, webVars, modelVars, raceVars, runVars,
                   jobVars>>

\* POST /logout with this token in the cookie (0: no cookie).
Logout(token) ==
    /\ user_sessions' = IF token # 0 THEN [user_sessions EXCEPT ![token] = <<>>]
                        ELSE user_sessions
    /\ issued' = IF token # 0 /\ issued[token] # <<>>
                 THEN [issued EXCEPT ![token] = <<[@[1] EXCEPT !.out = TRUE]>>]
                 ELSE issued
    /\ seen' = <<>>
    /\ UNCHANGED <<now, scoreVars, parseVars, pipeVars, webVars, modelVars, raceVars,
                   runVars, jobVars>>

\* get_current_user(request) at instant t with this token in the cookie.
GetCurrentUser(token, t) ==
    /\ ~Before(t, now)
    /\ LET r == IF token = 0 THEN [user |-> 0, rows |-> user_sessions]
                ELSE get_user_by_session_token(user_sessions, token, t)
       IN  /\ user_sessions' = r.rows
           /\ seen' = <<[token |-> token, at |-> t, user |-> r.user]>>
    /\ now' = t
    /\ UNCHANGED <<issued, scoreVars, parseVars, pipeVars, webVars, modelVars, raceVars,
                   runVars, jobVars>>

AuthNext ==
    \/ \E u \in Users, t \in Instants : Login(u, t)
    \/ \E token \in SessionTokens \cup {0} : Logout(token)
    \/ \E token \in SessionTokens \cup {0}, t \in Instants : GetCurrentUser(token, t)

SpecAuth == Init /\ [][AuthNext]_vars

(***************************************************************************)
(* Properties of the score normaliser and the calibrator (SpecScores)      *)
(***************************************************************************)
Abs(n) == IF n < 0 THEN 0 - n ELSE n

AllFinite(m) == \A k \in Keys : IsFin(m[k])
SumVals(m) == m.Left.val + m.Center.val + m.Right.val
Normalized == Len(norm) >= 1
Calibrated(source) == cal[source] # <<>>

C2_Original ==
    (Normalized /\ AllFinite(scores)
        /\ ((\A k \in Keys : scores[k].val = 0) \/ SumVals(scores) < 0))
    => norm[1] = DEFAULT_SCORES

\* C2 amended: an input without any positive value (all zero, or zero and
\* negative values) is mapped to the default distribution; an input that has a
\* positive value is normalised over its positive values even when its sum is
\* negative, every non-positive entry getting share 0.
C2_DefaultIffNoPositive ==
    (Normalized /\ AllFinite(scores))
    => /\ (\A k \in Keys : scores[k].val <= 0) => norm[1] = DEFAULT_SCORES
       /\ (\E k \in Keys : scores[k].val > 0)
            => /\ \A k \in Keys : scores[k].val <= 0 => norm[1][k] = Fin(0)
               /\ \E k \in Keys : scores[k].val > 0 /\ norm[1][k].val > 0

\* C2 witness: an input with negative values and no positive one got the default.
C2_Witness ==
    /\ Normalized /\ AllFinite(scores)
    /\ \A k \in Keys : scores[k].val <= 0
    /\ SumVals(scores) < 0
    /\ norm[1] = DEFAULT_SCORES

IsDistribution(m) ==
    AllFinite(m) /\ (\A k \in Keys : m[k].val >= 0) /\ SumVals(m) = 1000

\* C4 as stated, on the inputs most favourable to it (distributions): with
\* Right < 1 the "right" calibration gives Right a strictly larger share than
\* the "unknown" calibration.
C4_Original ==
    (Calibrated("right") /\ Calibrated("unknown")
        /\ IsDistribution(scores) /\ scores.Right.val < 1000)
    => cal["right"][1].Right.val > cal["unknown"][1].Right.val

\* C4 amended: for finite scores with Right < 1 the "right" calibration never
\* gives Right a smaller share than "unknown" does, and before the rounding to
\* 3 decimals the share is strictly larger whenever Right > -0.15 and Left or
\* Center is positive.
C4_RightNotSmaller ==
    (Calibrated("right") /\ Calibrated("unknown")
        /\ AllFinite(scores) /\ scores.Right.val < 1000)
    => /\ cal["right"][1].Right.val >= cal["unknown"][1].Right.val
       /\ (scores.Right.val > 0 - adjustment
             /\ (scores.Left.val > 0 \/ scores.Center.val > 0))
          => LET a == Clamp(Adjust(scores, "right"))
                 u == Clamp(scores)
             IN  a.Right.val * Total(u).val > u.Right.val * Total(a).val

\* C4 witness: both calibrations ran on a distribution with Right < 1 and the
\* "right" one gave Right strictly more.
C4_Witness ==
    /\ Calibrated("right") /\ Calibrated("unknown")
    /\ IsDistribution(scores) /\ scores.Right.val < 1000
    /\ cal["right"][1].Right.val > cal["unknown"][1].Right.val

(***************************************************************************)
(* Properties of safe_json_parse (SpecParse)                               *)
(***************************************************************************)
NoBrace(t) == \A i \in 1..Len(t) : t[i] \notin {"{", "}"}

\* text[i..j] is one JSON object and only brace-free prose surrounds it.
ObjectInProse(t, i, j) ==
    /\ i <= j
    /\ t[i] = "{"
    /\ IsJson(SubSeq(t, i, j))
    /\ NoBrace(SubSeq(t, 1, i - 1))
    /\ NoBrace(SubSeq(t, j + 1, Len(t)))

\* The substring between the first "{" and the last "}" of t is valid JSON.
BraceSpanIsJson(t) ==
    \E i, j \in 1..Len(t) :
        /\ t[i] = "{" /\ \A a \in 1..(i - 1) : t[a] # "{"
        /\ t[j] = "}" /\ \A b \in (j + 1)..Len(t) : t[b] # "}"
        /\ i <= j
        /\ IsJson(SubSeq(t, i, j))

\* C6: on a text that is not valid JSON but holds one JSON object surrounded
\* by prose, safe_json_parse returns that object; when the substring between
\* the first "{" and the last "}" is not valid JSON, or no braces exist, it
\* raises an error and returns no value.
C6_BraceSliceFallback ==
    (parsed # <<>> /\ ~IsJson(text))
    => /\ \A i, j \in 1..Len(text) :
             ObjectInProse(text, i, j)
             => /\ parsed[1].ok
                /\ parsed[1].value = JsonDecode(SubSeq(text, i, j))
       /\ ~BraceSpanIsJson(text)
             => /\ ~parsed[1].ok
                /\ parsed[1].error \in {"JSONDecodeError", "ValueError"}
       /\ NoBrace(text) => parsed[1].error = "ValueError"

\* C6 witness: a nested object with prose around it was parsed by the fallback.
C6_Witness ==
    /\ parsed # <<>> /\ ~IsJson(text)
    /\ \E i, j \in 1..Len(text) :
          /\ ObjectInProse(text, i, j)
          /\ j - i >= 3
          /\ i > 1
    /\ parsed[1].ok
    /\ parsed[1].value.type = "object"
    /\ parsed[1].value.members # <<>>
    /\ parsed[1].value.members[1].type = "object"

(***************************************************************************)
(* Properties of the analysis pipeline (Spec, FairSpec)                    *)
(***************************************************************************)
Returned == pc = "returned"
ReturnedOk == pc = "returned" /\ ret.kind = "ok"

SameNarrative(a, b) ==
    \A i \in 1..Len(NarrativeFields) : a[NarrativeFields[i]] = b[NarrativeFields[i]]

\* C5 as stated: two calls with the same source and truncated text that both
\* return invoke groq_call at most once in total, and the second returns the
\* narrative fields of the first.
C5_Original ==
    (ReturnedOk /\ ret.second)
    => /\ first[key][1].ncalls + ncalls <= 1
       /\ SameNarrative(ret.value[1], first[key][1].result)

\* C5 amended: once a call with some source and truncated text has returned,
\* a later call with the same source and truncated text invokes groq_call not
\* at all and returns the narrative fields the first one returned; the first
\* call invokes groq_call at most twice (the completion and one repair).
C5_SecondCallFromCache ==
    (ReturnedOk /\ ret.second)
    => /\ ncalls = 0
       /\ first[key][1].ncalls <= 2
       /\ SameNarrative(ret.value[1], first[key][1].result)

\* C5 witness: a second call returned for a key whose first call had needed
\* the repair call, and the summary it returned had been stripped.
C5_Witness ==
    /\ ReturnedOk /\ ret.second
    /\ first[key][1].ncalls = 2
    /\ ret.value[1].summary = <<"S">>
    /\ key[2].len = MAX_CHARS

\* C7: one groq_call makes at most 3 attempts, returns the first non-empty
\* reply without a further attempt or wait, sleeps 0.7 s x attempt number
\* after the 1st and the 2nd failure only, raises RuntimeError with the last
\* attempt's error after the 3rd failure, and always ends.
C7_FrameInv ==
    /\ gq.made <= 3
    /\ \A i \in 1..Len(gq.slept) : gq.slept[i] = 7 * i
    /\ gq.status = "running"
         => /\ gq.made <= 2
            /\ Len(gq.slept) = gq.made
            /\ Len(gq.errors) = gq.made
    /\ gq.status = "returned" => Len(gq.slept) = gq.made - 1
    /\ gq.status = "raised"
         => /\ gq.made = 3
            /\ gq.slept = <<7, 14>>
            /\ ret.kind = "err" /\ ret.error = "RuntimeError"
            /\ Len(gq.errors) = 3 /\ ret.cause = gq.errors[3]

C7_FrameStep ==
    /\ (gq.status = "running" /\ gq'.status = "returned")
         => gq'.made = gq.made + 1 /\ gq'.slept = gq.slept
    /\ (gq.status = "running" /\ gq'.status = "running" /\ gq'.made # gq.made)
         => /\ gq'.made = gq.made + 1
            /\ gq'.slept = Append(gq.slept, 7 * (gq.made + 1))
    /\ gq.status \in {"returned", "raised"}
         => gq' = gq \/ gq'.made = 0

C7_GroqCallBounded ==
    /\ []C7_FrameInv
    /\ [][C7_FrameStep]_vars
    /\ (gq.status = "running") ~> (gq.status # "running")

\* C7 witness: a groq_call raised after three failed attempts, the last one an
\* empty reply, having slept 0.7 s and 1.4 s.
C7_Witness ==
    /\ gq.status = "raised"
    /\ gq.slept = <<7, 14>>
    /\ gq.errors = <<"APIError", "APIError", "Empty model response">>
    /\ ret.cause = "Empty model response"

\* The text parses neither directly nor from its first "{" to its last "}".
Unparsable(shape) == ~IsJson(shape) /\ ~BraceSpanIsJson(shape)

\* C8: one call issues at most one corrective groq_call, only after the first
\* reply failed the direct and the brace-slice parse; when the corrected reply
\* cannot be parsed either the call fails with the parse error and no further
\* model call.
C8_RepairInv ==
    /\ ncalls <= 2
    /\ gq.purpose = "repair"
         => ncalls = 2 /\ raw # <<>> /\ Unparsable(raw[1].shape)
    /\ gq.purpose = "raw" => ncalls = 1 /\ repaired = <<>>
    /\ (Returned /\ repaired # <<>> /\ Unparsable(repaired[1].shape))
         => /\ ret.kind = "err"
            /\ ret.error \in {"JSONDecodeError", "ValueError"}
            /\ ret.stage = "parse"

C8_RepairStep ==
    (pc = "parse" /\ gq.purpose = "repair" /\ Unparsable(repaired[1].shape))
    => (pc' = "returned" /\ ncalls' = ncalls)

C8_AtMostOneRepair == []C8_RepairInv /\ [][C8_RepairStep]_vars

\* C8 witness: the corrected reply could not be parsed and the call failed.
C8_Witness ==
    /\ Returned /\ ncalls = 2
    /\ repaired # <<>> /\ Unparsable(repaired[1].shape)
    /\ ret.kind = "err" /\ ret.stage = "parse"

\* C9 as stated: score coercion never fails, whatever the parsed reply holds.
C9_Original ==
    Returned => ~(ret.kind = "err" /\ ret.stage = "coerce")

\* C10 as stated: every returned result, fresh or read back from the cache,
\* has bias_scores over exactly Left, Center, Right, every value >= 0 and a
\* sum of 1 within the rounding.
C10_Original ==
    ReturnedOk
    => LET b == ret.value[1].bias_scores
       IN  /\ DOMAIN b = Keys
           /\ \A k \in Keys : IsFin(b[k]) /\ b[k].val >= 0
           /\ Abs(SumVals(b) - 1000) <= 3

(***************************************************************************)
(* Properties of detect_source and _normalize_url (SpecWeb)                *)
(***************************************************************************)
\* The scheme a URL text spells out before "://", lower-cased; "" if none.
WrittenScheme(u) ==
    LET t == StripUrl(u)
    IN  IF Len(t) >= 4 /\ IsWord(t[1]) /\ t[2] = ":" /\ t[3] = "/" /\ t[4] = "/"
        THEN Lower(t[1]) ELSE ""

\* The text without the blanks around it and without an http(s):// prefix.
AfterPrefix(u) ==
    LET t == StripUrl(u)
    IN  IF WrittenScheme(u) \in {"http", "https"} THEN SubSeq(t, 5, Len(t)) ELSE t

\* C11: detect_source never fails and returns one of right, left, center,
\* unknown; www.foxnews.com gives right, slate.com left, apnews.com center,
\* example.net unknown, and a domain on several lists gets the earliest label.
C11_Original ==
    label # <<>> =>
        /\ label[1].raised = ""
        /\ label[1].label \in Sources
        /\ (WrittenScheme(url) \in {"", "http", "https"} /\ AfterPrefix(url) # <<>>) =>
              LET host == AfterPrefix(url)[1]
              IN  /\ host = "www.foxnews.com" => label[1].label = "right"
                  /\ host = "slate.com" => label[1].label = "left"
                  /\ host = "apnews.com" => label[1].label = "center"
                  /\ host = "example.net" => label[1].label = "unknown"
                  /\ host = "foxnews-vox.bbc.example" => label[1].label = "right"
                  /\ host = "slate.npr.example" => label[1].label = "left"

\* C15: _normalize_url fails when the input is empty, when the URL's scheme is
\* not http or https, and when the host is missing; a returned URL has scheme
\* http or https and a host.
C15_Original ==
    normalized # <<>> =>
        LET r == normalized[1]
            split == urlparse(r.url)
        IN  /\ StripUrl(url) = <<>> => r.raised # ""
            /\ WrittenScheme(url) \notin {"", "http", "https"} => r.raised # ""
            /\ AfterPrefix(url) = <<>> => r.raised # ""
            /\ r.raised = "" =>
                  /\ split.scheme \in {"http", "https"}
                  /\ split.netloc # <<>>
                  /\ IsWord(split.netloc[1])

(***************************************************************************)
(* Properties of extract_content (SpecWeb)                                 *)
(***************************************************************************)
Extracted == ex.pc = "done"

\* The host of the normalised URL of the call, lower-cased ("" if it has none).
ExHost ==
    LET netloc == urlparse(ex.url).netloc
    IN  IF netloc # <<>> /\ IsWord(netloc[1]) THEN Lower(netloc[1]) ELSE ""

ExPath == urlparse(ex.url).path
ExQuery == urlparse(ex.url).query

VideoHosts == {"youtube.com", "www.youtube.com", "youtu.be", "youtube.com.msn.com"}
PostHosts == {"twitter.com", "x.com"}
AggregatorHosts == {"www.msn.com"}

\* The video URLs that name no video: no v value in the query, no id after
\* shorts/live/embed, nothing after the short-link host.
NoVideoNamed ==
    /\ ExHost \in VideoHosts
    /\ \A i \in 1..Len(ExQuery) : ExQuery[i] # "v=abc123XYZ"
    /\ \A i \in 1..Len(ExPath) : ExPath[i] \notin {"abc123XYZ", "ar-AA1b2c3"}

\* C12: a video URL that names no video fails with the id-parse error, and no
\* request has been made for it.
C12_NoIdFailsBeforeNetwork ==
    (ex.route # <<>> /\ NoVideoNamed) =>
        /\ ex.requests = <<>>
        /\ Extracted => (ex.ret.kind = "err" /\ ex.ret.message = "Could not parse YouTube video ID from this URL.")

C12_Witness ==
    /\ Extracted
    /\ NoVideoNamed
    /\ ExHost = "www.youtube.com"
    /\ ExPath = <<"/", "shorts", "/">>
    /\ ex.ret.message = "Could not parse YouTube video ID from this URL."

\* The home and section paths among the paths of the URLs.
HomeOrSectionPaths ==
    {<<>>, <<"/">>, <<"/", "news">>, <<"/", "news", "/">>, <<"/", "about-us">>,
     <<"/", "opinion">>}

Fetched == ex.page # <<>>

\* C13: a fetched generic page on a home or section path fails with the "not a
\* direct article page" error whatever text it holds.
C13_SectionPageNotArticle ==
    (Extracted /\ Fetched /\ ExPath \in HomeOrSectionPaths) =>
        /\ ex.ret.kind = "err"
        /\ ex.ret.message = "This link does not look like a direct article page."

C13_Witness ==
    /\ Extracted
    /\ ExPath = <<"/", "news", "/">>
    /\ Fetched
    /\ ex.page[1].signals
    /\ ex.page[1].candidates = <<TextOf(2000, 300, 20, 150)>>
    /\ ex.ret.message = "This link does not look like a direct article page."

\* C14: the outcome of a fetched generic page is the first that applies of
\* (a) web-article, (b) web-article-light, (c) the "not an article page" error,
\* (d) the "insufficient text" error, decided on the longest non-empty
\* candidate; no text is returned when likely_article is false.
C14_OrderedAcceptance ==
    (Extracted /\ Fetched) =>
        LET page == ex.page[1]
            likely == LikelyArticle(ExPath, page.signals)
            best == Best(page.candidates)
            a == /\ likely /\ best.len >= ARTICLE_LEN /\ best.words >= ARTICLE_WORDS
                 /\ best.sentences >= ARTICLE_SENTENCES /\ best.unique >= ARTICLE_UNIQUE
            b == likely /\ best.len >= LIGHT_LEN /\ best.words >= LIGHT_WORDS
            returns(kind) == /\ ex.ret.kind = "ok" /\ ex.ret.content_kind = kind
                             /\ ex.ret.text = <<best>>
            raises(message) == /\ ex.ret.kind = "err" /\ ex.ret.message = message
                               /\ ex.ret.text = <<>>
        IN  /\ \A i \in 1..Len(page.candidates) : page.candidates[i].len <= best.len
            /\ best.len > 0 => \E i \in 1..Len(page.candidates) : page.candidates[i] = best
            /\ a => returns("web-article")
            /\ (~a /\ b) => returns("web-article-light")
            /\ (~a /\ ~b /\ ~likely) => raises("This link does not look like a direct article page.")
            /\ (~a /\ ~b /\ likely) => raises("Could not extract enough article text from this page.")
            /\ ~likely => ex.ret.text = <<>>

C14_Witness ==
    /\ Extracted
    /\ Fetched
    /\ ex.page[1].candidates = <<TextOf(179, 40, 1, 30), TextOf(2000, 300, 20, 150)>>
    /\ ex.ret.content_kind = "web-article"
    /\ ex.ret.text = <<TextOf(2000, 300, 20, 150)>>

\* C16: a video host takes the video strategy only, a post host the post
\* strategy only, and a host of none of the three classes takes the generic
\* page strategy and never returns youtube-video or social-post.
C16_Original ==
    ex.route # <<>> =>
        /\ ExHost \in VideoHosts => ex.route = <<"video">>
        /\ ExHost \in PostHosts => ex.route = <<"post">>
        /\ ExHost \in AggregatorHosts => ex.route[1] = "detail"
        /\ ExHost \notin (VideoHosts \cup PostHosts \cup AggregatorHosts) =>
              /\ ex.route = <<"page">>
              /\ ex.ret.content_kind \notin {"youtube-video", "social-post"}

DetailDone == ex.detail # <<>>
FellThrough == ex.route = <<"detail", "page">>

\* C17 as stated: on the aggregator host a detail text of 120 characters or
\* more is returned as msn-detail without the page request, and in every other
\* case (no id, shorter text, endpoint unavailable) the call goes on to the
\* generic page strategy.
C17_Original ==
    (ExHost \in AggregatorHosts /\ DetailDone) =>
        LET d == ex.detail[1]
        IN  IF d.asked /\ d.ok /\ d.text.len >= 120
            THEN /\ Extracted /\ ex.ret.content_kind = "msn-detail"
                 /\ ex.requests = <<"detail">>
            ELSE FellThrough

\* C17: on the aggregator host a detail text of 120 characters or more is
\* returned as msn-detail without the page request; with no article id in the
\* URL, or a shorter detail text, the call goes on to the generic page
\* strategy; a failed detail request ends the call with the "Could not fetch
\* article data from MSN" error, and the page is not requested.
C17_DetailThenPage ==
    (ExHost \in AggregatorHosts /\ DetailDone) =>
        LET d == ex.detail[1]
            hasId == \E i \in 1..Len(ex.url) : ex.url[i] = "ar-AA1b2c3"
        IN  /\ d.asked <=> hasId
            /\ (d.asked /\ d.ok /\ d.text.len >= 120) =>
                  /\ Extracted /\ ex.ret.kind = "ok"
                  /\ ex.ret.content_kind = "msn-detail"
                  /\ ex.ret.text = <<d.text>>
                  /\ ex.requests = <<"detail">>
            /\ (~d.asked \/ (d.ok /\ d.text.len < 120)) =>
                  /\ FellThrough
                  /\ ex.ret.message # "Could not fetch article data from MSN."
            /\ (d.asked /\ ~d.ok) =>
                  /\ Extracted /\ ex.ret.kind = "err"
                  /\ ex.ret.message = "Could not fetch article data from MSN."
                  /\ ex.requests = <<"detail">>

C17_Witness ==
    /\ ExHost \in AggregatorHosts
    /\ DetailDone
    /\ ex.detail[1].asked
    /\ ~ex.detail[1].ok
    /\ Extracted
    /\ ex.ret.message = "Could not fetch article data from MSN."

(***************************************************************************)
(* Properties of get_available_groq_model (SpecModel, SpecModelRace)       *)
(***************************************************************************)
\* id is the first listed model holding the most preferred keyword that any
\* listed model holds, or the first listed model when no keyword is held.
IsResolution(list, id) ==
    IF \E k \in 1..Len(preferred), i \in 1..Len(list) : Matches(preferred[k], list[i])
    THEN \E k \in 1..Len(preferred), i \in 1..Len(list) :
            /\ id = list[i]
            /\ Matches(preferred[k], list[i])
            /\ \A j \in 1..(i - 1) : ~Matches(preferred[k], list[j])
            /\ \A l \in 1..(k - 1), j \in 1..Len(list) : ~Matches(preferred[l], list[j])
    ELSE id = list[1]

CallDone(c) == callers[c].pc = "done"

\* C18: a call of get_available_groq_model (made, as everywhere in the
\* repository, without force_refresh) returns a set environment override
\* without a request; otherwise a cached id without a request; otherwise it
\* asks for the model list once and returns the first listed model holding the
\* most preferred matching keyword, or the first listed model when none
\* matches; it fails when the API key is absent or the list is empty.
C18_ResolutionOrder ==
    \A c \in Callers :
        (CallDone(c) /\ ~callers[c].force_refresh) =>
            LET call == callers[c]
                returns(id) == call.ret.kind = "ok" /\ call.ret.value = id
            IN  /\ env.GROQ_MODEL # "" => (returns(env.GROQ_MODEL) /\ call.requests = 0)
                /\ (env.GROQ_MODEL = "" /\ call.seen # "") =>
                      (returns(call.seen) /\ call.requests = 0)
                /\ (env.GROQ_MODEL = "" /\ call.seen = "" /\ env.GROQ_API_KEY = "") =>
                      (call.ret.kind = "err" /\ call.requests = 0)
                /\ (env.GROQ_MODEL = "" /\ call.seen = "" /\ env.GROQ_API_KEY # "") =>
                      /\ call.requests = 1
                      /\ call.models = <<>> => call.ret.kind = "err"
                      /\ call.models = <<<<>>>> => call.ret.kind = "err"
                      /\ (call.models # <<>> /\ call.models # <<<<>>>>) =>
                            /\ call.ret.kind = "ok"
                            /\ IsResolution(call.models[1], call.ret.value)
                            /\ CACHED_MODEL_ID = call.ret.value

C18_Witness ==
    /\ CallDone(1)
    /\ ~callers[1].force_refresh
    /\ callers[1].models = <<<<"whisper-large-v3", "gemma2-9b-it", "llama-3.1-8b-instant">>>>
    /\ callers[1].ret.value = "llama-3.1-8b-instant"
    /\ callers[1].requests = 1

\* The list requests made so far, and the ids the discoveries have chosen.
Discoveries == {c \in Callers : callers[c].requests = 1}
Chosen == {Select(callers[c].models[1]).id : c \in {d \in Callers : callers[d].models # <<>>}}

Whole(r) == [i \in 1..Blocks |-> r]

AllDone == \A p \in Procs : procs[p].pc = "done"

\* C19: concurrent analyses of one key may both miss and both write, but no
\* call fails because of the race, no lookup returns a partial or mixed
\* entry, and the entry left in the end is the whole result of the last writer.
C19_Original ==
    /\ \A p \in Procs : procs[p].pc = "done" =>
          /\ procs[p].ret.kind = "ok"
          /\ \E r \in RaceResults : procs[p].ret.value = Whole(r)
    /\ (AllDone /\ file.exists) =>
          /\ JsonLoadFile(file.content).ok
          /\ JsonLoadFile(file.content).value = Whole(file.last)

(***************************************************************************)
(* The likely-article signal (SpecWeb)                                     *)
(***************************************************************************)
\* The article-like paths among the paths of the URLs: a date, "/article/",
\* "/story/", an "/ar-" id or a long hyphenated last segment.
ArticleLikePaths ==
    LET Slug == "senate-passes-budget-after-long-debate"
    IN  {<<"/", "politics", "/", Slug>>,
         <<"/", "2024", "/", "05", "/", "17", "/", Slug>>,
         <<"/", "story", "/", "abc123XYZ">>,
         <<"/", "article", "/", "abc123XYZ">>,
         <<"/", "news", "/", "ar-AA1b2c3">>,
         <<"/", "news", "/", Slug>>,
         <<"/", "ar-AA1b2c3">>}

\* The paths of no segment or of one segment that is a known section name.
HomeOrKnownSectionPaths == {<<>>, <<"/">>, <<"/", "news">>, <<"/", "news", "/">>}

\* The paths of the URLs of a plain host: article-like, home or section, or
\* neither.
PlainPaths ==
    ArticleLikePaths \cup HomeOrSectionPaths
        \cup {<<"/", "abc123XYZ">>, <<"/", "news", "/", "abc123XYZ">>}

\* likely_article as the outcome shows it: only a page that is not likely an
\* article gets the "not a direct article page" error.
LikelyObserved ==
    ~(/\ ex.ret.kind = "err"
      /\ ex.ret.message = "This link does not look like a direct article page.")

\* C23 as stated: a fetched page is likely an article exactly when its path is
\* article-like, or it has article markers and its path is not a home page or
\* a single segment naming a known section.
C23_Original ==
    (Extracted /\ Fetched /\ ExPath \in PlainPaths) =>
        (LikelyObserved <=>
            \/ ExPath \in ArticleLikePaths
            \/ ex.page[1].signals /\ ExPath \notin HomeOrKnownSectionPaths)

\* C23 (amended): a fetched page is likely an article exactly when its path is
\* article-like, or it has article markers and its path is neither empty nor
\* a single segment that is a known section name or 2 to 12 lower-case
\* letters and hyphens ("/opinion", "/about-us").
C23_LikelyArticle ==
    (Extracted /\ Fetched /\ ExPath \in PlainPaths) =>
        (LikelyObserved <=>
            \/ ExPath \in ArticleLikePaths
            \/ ex.page[1].signals /\ ExPath \notin HomeOrSectionPaths)

C23_Witness ==
    /\ Extracted
    /\ Fetched
    /\ ExPath = <<"/", "opinion">>
    /\ ex.page[1].signals
    /\ ex.page[1].candidates = <<TextOf(2000, 300, 20, 150)>>
    /\ ~LikelyObserved

(***************************************************************************)
(* Properties of an analysis request (SpecRun)                             *)
(***************************************************************************)
Answered == run.pc = "done"

\* The request failed in full_bias_analysis: the model or its output.
AnalysisFailed == Answered /\ run.raised # "" /\ run.stages = <<"extract", "classify", "analyze">>

\* No stage is entered twice.
NoStageTwice ==
    \A i, j \in 1..Len(run.stages) : run.stages[i] = run.stages[j] => i = j

\* C21: at /analyze and at /api/analyze a ScrapeError out of the pipeline is
\* answered with a 4xx status and the error's own message, a failure of the
\* model or back end with a 5xx status and a generic message, and no stage
\* is run again after a failure.
C21_Original ==
    (Answered /\ run.raised # "") =>
        /\ run.raised = "ScrapeError" =>
              /\ run.resp[1].status \in 400..499
              /\ run.resp[1].error = run.message
        /\ AnalysisFailed =>
              /\ run.resp[1].status \in 500..599
              /\ run.resp[1].error # run.message
        /\ NoStageTwice

StagesInOrder ==
    \E n \in 0..4 : run.stages = SubSeq(<<"extract", "classify", "analyze", "history">>, 1, n)

C22_RunInv ==
    /\ StagesInOrder
    /\ pc \notin {"idle", "returned"} =>
          /\ run.pc = "analyze"
          /\ run.stages = <<"extract", "classify">>
          /\ key = CacheKeyOf(run.source, Truncate(run.text[1]))
    /\ (Answered /\ run.raised = "") =>
          run.stages = <<"extract", "classify", "analyze", "history">>

C22_RunStep ==
    \* The cache is looked up after extraction and classification.
    /\ (pc = "idle" /\ pc' # "idle") => run.stages = <<"extract", "classify">>
    \* The model is called on a miss only.
    /\ ncalls' > ncalls => cache[key'] = <<>> /\ run.pc = "analyze"
    \* The entry is stored after the model call and the parse.
    /\ cache' # cache => pc = "parse" /\ ncalls >= 1 /\ run.pc = "analyze"
    \* A row is saved after the analysis returned a result, and with it the
    \* run ends.
    /\ analysis_history' # analysis_history =>
          /\ pc = "returned" /\ ret.kind = "ok"
          /\ run.stages = <<"extract", "classify">>
          /\ run'.pc = "done" /\ run'.raised = ""
    \* A run that ends well has saved one row, a run that fails none.
    /\ (~Answered /\ Answered') =>
          Len(analysis_history') =
              Len(analysis_history) + (IF run'.raised = "" THEN 1 ELSE 0)
    /\ Answered => analysis_history' = analysis_history
    \* A failed extraction touches neither the cache nor the model.
    /\ (Answered' /\ run'.stages = <<"extract">>) =>
          (pc = "idle" => UNCHANGED pipeVars)

\* C22: a run goes extract, classify, cache lookup, on a miss the model call
\* and the parse, cache store, history save, in this order; a failed
\* extraction touches neither cache nor model and saves no row, a failed
\* analysis saves no row, and a successful run saves exactly one row.
C22_StagesInOrder == []C22_RunInv /\ [][C22_RunStep]_vars

C22_Witness ==
    /\ run.n = 2
    /\ Answered
    /\ run.raised = ""
    /\ run.prev # <<>> /\ run.prev[1].failed = FALSE
    /\ Len(analysis_history) = 1
    /\ cache[run.prev[1].key] # <<>>

\* The analysis before the running one failed on key k.
FailedBefore(k) == run.prev # <<>> /\ run.prev[1].failed /\ run.prev[1].key = k

C24_CacheInv ==
    \A k \in CacheKeys : FailedBefore(k) =>
        \* No entry is there until a call on k has assembled a result.
        /\ cache[k] # <<>> => (run.pc = "analyze" /\ pc = "returned" /\ key = k
                               /\ ret.kind = "ok" /\ ncalls >= 1)
        \* The next call on k misses and calls the model.
        /\ (run.pc = "analyze" /\ pc # "idle" /\ key = k) => ncalls >= 1

C24_CacheStep ==
    \* A call that fails leaves the cache as it was.
    /\ (pc # "returned" /\ pc' = "returned" /\ ret'.kind = "err") => cache' = cache
    \* An entry is written for the key of the call with its assembled result.
    /\ cache' # cache =>
          /\ ret'.kind = "ok"
          /\ \A k \in CacheKeys : k # key => cache'[k] = cache[k]
          /\ \A f \in {"summary", "essay", "top_signal", "global_perspective",
                       "bias_scores"} : f \in DOMAIN ret'.value[1]

\* C24: a full_bias_analysis call that fails writes no cache entry, so the
\* next call with the same key misses and calls the model again; an entry is
\* written only with a completely assembled result.
C24_FailureLeavesCache == []C24_CacheInv /\ [][C24_CacheStep]_vars

C24_Witness ==
    /\ run.n = 2
    /\ run.pc = "analyze"
    /\ FailedBefore(key)
    /\ pc = "returned"
    /\ ret.kind = "ok"
    /\ ncalls = 1
    /\ cache[key] # <<>>

(***************************************************************************)
(* Properties of background jobs (SpecJobs)                                *)
(***************************************************************************)
Created(j) == analysis_jobs[j] # <<>>
Finished(j) == Created(j) /\ analysis_jobs[j][1].status \in {"done", "failed"}

C25_JobInv ==
    \A j \in JobIds : Created(j) =>
        LET job == analysis_jobs[j][1]
        IN  /\ job.status \in {"queued", "running", "done", "failed"}
            /\ job.status = "done" => (job.result_json # <<>> /\ job.error = <<>>)
            /\ job.status = "failed" =>
                  (job.error # <<>> /\ job.error # <<"">> /\ job.result_json = <<>>)
            \* The pipeline runs under "running", and however it ends the
            \* row says so.
            /\ tasks[j].pc = "pipeline" => job.status = "running"
            /\ tasks[j].pc = "ended" =>
                  job.status = IF tasks[j].raised = "" THEN "done" ELSE "failed"

C25_JobStep ==
    \A j \in JobIds : analysis_jobs'[j] # analysis_jobs[j] =>
        \/ ~Created(j) /\ analysis_jobs'[j][1].status = "queued"
        \/ /\ Created(j) /\ analysis_jobs[j][1].status = "queued"
           /\ analysis_jobs'[j][1].status = "running"
        \/ /\ Created(j) /\ analysis_jobs[j][1].status = "running"
           /\ analysis_jobs'[j][1].status \in {"done", "failed"}

\* C25: a job's status moves queued, running, then done or failed and no
\* further; the pipeline runs under "running", each of its exceptions gives
\* "failed"; a done job has a result and no error, a failed job an error
\* message and no result; and every job reaches done or failed.
C25_JobLifecycle ==
    /\ []C25_JobInv
    /\ [][C25_JobStep]_vars
    /\ \A j \in JobIds : Created(j) ~> Finished(j)

C25_Witness ==
    /\ Finished(1)
    /\ analysis_jobs[1][1].status = "failed"
    /\ analysis_jobs[1][1].error = <<"Could not load this page.">>
    /\ tasks[1] = [pc |-> "ended", raised |-> "ScrapeError"]

C26_AnswerStep ==
    answer' # answer =>
        LET a == answer'[1]
            job == analysis_jobs[a.job_id]
            creator == IF a.user_id # 0 THEN job[1].user_id = a.user_id
                       ELSE job[1].session_id = a.session_id
        IN  /\ job = <<>> => a.status_code = 404
            /\ job # <<>> =>
                  /\ a.status_code = IF creator THEN 200 ELSE 403
                  /\ a.status_code # 200 => a.body = <<>>
                  \* The job of a logged-in user is given to that user only.
                  /\ (job[1].user_id # 0 /\ a.status_code = 200) =>
                        a.user_id = job[1].user_id

\* C26: api_job_status answers 404 for an unknown job, gives a job to a
\* logged-in requester only if the job's user_id is theirs and to an
\* anonymous requester only if the job's session_id is theirs, answers 403
\* to every other requester, and never gives the job of a logged-in user to
\* a requester who is not authenticated as that user.
C26_Original == [][C26_AnswerStep]_vars

(***************************************************************************)
(* Properties of login sessions (SpecAuth)                                 *)
(***************************************************************************)
C27_TokenInv ==
    \A token \in SessionTokens :
        \* No row before the token is created, none after its logout.
        /\ issued[token] = <<>> => user_sessions[token] = <<>>
        /\ (issued[token] # <<>> /\ issued[token][1].out) => user_sessions[token] = <<>>

C27_TokenStep ==
    (seen' # <<>> /\ seen' # seen) =>
        LET s == seen'[1]
            g == IF s.token = 0 THEN <<>> ELSE issued[s.token]
        IN  \* A user is returned for a token of theirs that was not logged
            \* out and has not expired.
            /\ s.user # 0 =>
                  /\ g # <<>>
                  /\ s.user = g[1].user_id
                  /\ ~g[1].out
                  /\ ~Before(g[1].expires, s.at)
            \* The lookup of an expired token removes its row.
            /\ (g # <<>> /\ Before(g[1].expires, s.at)) => user_sessions'[s.token] = <<>>

\* C27: get_user_by_session_token returns a user only for a token that was
\* created for that user, was not logged out and whose expires_at is not in
\* the past; after the logout or the expiry it returns no user in any later
\* request, and the lookup of an expired token removes its row.
C27_TokenLifetime == []C27_TokenInv /\ [][C27_TokenStep]_vars

C27_Witness ==
    /\ issued[1] = <<[user_id |-> 1, expires |-> [day |-> SESSION_DAYS, micro |-> 0],
                      out |-> FALSE]>>
    /\ seen = <<[token |-> 1, at |-> [day |-> SESSION_DAYS, micro |-> 5], user |-> 0]>>
    /\ user_sessions[1] = <<>>

====
